---------------------------- MODULE Spec2Model ----------------------------
(***************************************************************************)
(* GradeCalc: the grade-aggregation model (src/src/course.py,              *)
(* src/src/grade_category.py) and the handlers of GPACalculator            *)
(* (src/src/main.py) that mutate it or solve for required grades.          *)
(*                                                                         *)
(* Numbers.  Python floats are modelled as exact rationals <<n, d>> in     *)
(* lowest terms with d > 0; the float NaN is <<0, 0>>.  Comparisons with   *)
(* NaN are false and arithmetic on NaN yields NaN, as in IEEE 754.  The    *)
(* rounding error of binary floating point is not modelled.                *)
(* GPA points (4.0, 3.5, ...) are rationals like every other float.        *)
(***************************************************************************)
EXTENDS Integers, Sequences, FiniteSets, TLC

(***************************************************************************)
(* Bounds of the model.                                                    *)
(***************************************************************************)
\* the largest total_assignments a category is created with
MaxAssignments == 2

\* the most grades of the category whose average is queried
MaxGrades == 3

\* the most grades of the accompanying Final category
MaxFinalGrades == 2

\* the most grades of a category when the current grade is queried
MaxGradesPerCategory == 2

(***************************************************************************)
(* Exact rational arithmetic standing for float arithmetic.                *)
(***************************************************************************)
RECURSIVE GCD(_, _)
GCD(a, b) == IF b = 0 THEN a ELSE GCD(b, a % b)

Abs(x) == IF x < 0 THEN -x ELSE x

NaN == <<0, 0>>

IsNaN(x) == x[2] = 0

\* the rational n/d in lowest terms with a positive denominator (NaN if d = 0)
Rat(n, d) ==
    IF d = 0 THEN NaN
    ELSE LET g == GCD(Abs(n), Abs(d))
             s == IF d < 0 THEN -1 ELSE 1
         IN  <<(s * n) \div g, (s * d) \div g>>

Num(i) == <<i, 1>>

Add(x, y) == IF IsNaN(x) \/ IsNaN(y) THEN NaN
             ELSE Rat(x[1] * y[2] + y[1] * x[2], x[2] * y[2])

Sub(x, y) == IF IsNaN(x) \/ IsNaN(y) THEN NaN
             ELSE Rat(x[1] * y[2] - y[1] * x[2], x[2] * y[2])

Mul(x, y) == IF IsNaN(x) \/ IsNaN(y) THEN NaN
             ELSE Rat(x[1] * y[1], x[2] * y[2])

\* x / y for y # 0 (the code divides only by counts and weights it has
\* tested or that are positive)
Div(x, y) == IF IsNaN(x) \/ IsNaN(y) THEN NaN
             ELSE Rat(x[1] * y[2], x[2] * y[1])

Lt(x, y) == ~IsNaN(x) /\ ~IsNaN(y) /\ x[1] * y[2] < y[1] * x[2]

Le(x, y) == ~IsNaN(x) /\ ~IsNaN(y) /\ x[1] * y[2] <= y[1] * x[2]

Gt(x, y) == Lt(y, x)

Ge(x, y) == Le(y, x)

RECURSIVE SumSeq(_)
SumSeq(s) == IF s = <<>> THEN Num(0) ELSE Add(Head(s), SumSeq(Tail(s)))


(***************************************************************************)
(* State.                                                                  *)
(*   current_course       GPACalculator.current_course: None, or a Course  *)
(*                        record [name, credit_hours, categories,          *)
(*                        grade_boundaries, semester, final_policy].       *)
(*                        categories is the insertion-                     *)
(*                        ordered dict, a sequence of GradeCategory        *)
(*                        records [name, weight, total_assignments, drops, *)
(*                        grades] with distinct names; grade_boundaries is *)
(*                        a function from GPA points to minimum percents.  *)
(*   grade_category_combo the items of the category selector of add_grade  *)
(*   final_policy_combo   the current text of the final-policy selector    *)
(*   last_call            the last query or solve applied and its result   *)
(***************************************************************************)
VARIABLES current_course, grade_category_combo, final_policy_combo, last_call

vars == <<current_course, grade_category_combo, final_policy_combo, last_call>>

None == [is_none |-> TRUE]

NoCall == [op |-> "none"]

\* GradeCategory.__init__: a category starts with no grades
GradeCategory(name, weight, total_assignments, drops) ==
    [name |-> name, weight |-> weight, total_assignments |-> total_assignments,
     drops |-> drops, grades |-> <<>>]

\* Course.__init__: no categories, no boundaries, no semester, policy
\* "No Replacement"
Course(name, credit_hours) ==
    [name |-> name, credit_hours |-> credit_hours, categories |-> <<>>,
     grade_boundaries |-> <<>>, semester |-> "",
     final_policy |-> "No Replacement"]

\* the keys of the dict self.categories
CategoryNames(self) ==
    {self.categories[i].name : i \in DOMAIN self.categories}

\* position of the key in the dict (the key is present)
IndexOf(self, name) ==
    CHOOSE i \in DOMAIN self.categories : self.categories[i].name = name

\* self.categories[name]
CategoryOf(self, name) == self.categories[IndexOf(self, name)]

(***************************************************************************)
(* Python helpers.                                                         *)
(***************************************************************************)
\* insertion of x into the ascending sequence s, after the elements that
\* are not greater (a stable insertion sort using only <)
RECURSIVE Insert(_, _)
Insert(x, s) ==
    IF s = <<>> THEN <<x>>
    ELSE IF Lt(x, Head(s)) THEN <<x>> \o s
    ELSE <<Head(s)>> \o Insert(x, Tail(s))

\* sorted(grades): ascending.  For numeric grades this is Python's sorted;
\* with a NaN among them Python's order depends on the sort's internals,
\* and the query specifications below draw numeric grades only.
RECURSIVE sorted(_)
sorted(s) ==
    IF s = <<>> THEN <<>>
    ELSE Insert(s[Len(s)], sorted(SubSeq(s, 1, Len(s) - 1)))

\* the slice s[k:] for k >= 0
SliceFrom(s, k) == SubSeq(s, k + 1, Len(s))

\* np.mean / sum(grades) / len(grades) of a non-empty sequence
Mean(s) == Div(SumSeq(s), Num(Len(s)))

(***************************************************************************)
(* Course.calculate_category_average                                       *)
(***************************************************************************)
\* a slip: the highest grades are dropped
ApplyDrops_Highest(grades, drops) ==
    IF drops > 0 THEN SubSeq(grades, 1, Len(grades) - drops) ELSE grades

\* lines 50-51, on the ascending grades
ApplyDrops(grades, drops) ==
    IF drops > 0 THEN SliceFrom(grades, drops) ELSE grades

\* a slip: the substitution is not restricted to the Test category
FinalPolicyConcerns_AnyCategory(self, category_name) ==
    /\ "Final" \in CategoryNames(self)
    /\ self.final_policy # "No Replacement"

\* lines 54-55
FinalPolicyConcerns(self, category_name) ==
    /\ category_name = "Test"
    /\ "Final" \in CategoryNames(self)
    /\ self.final_policy # "No Replacement"

\* a slip: the Final grade replaces the lowest grade even when it is lower
ReplaceLowest_Always(grades, final_grade) ==
    IF grades # <<>> THEN [grades EXCEPT ![1] = final_grade] ELSE grades

\* lines 61-62
ReplaceLowest(grades, final_grade) ==
    IF grades # <<>> /\ Gt(final_grade, grades[1])
    THEN [grades EXCEPT ![1] = final_grade]
    ELSE grades

\* a slip: the lowest grade is averaged with the Final grade only when that
\* raises it
AverageWithLowest_WhenHigher(grades, final_grade) ==
    IF grades # <<>> /\ Gt(final_grade, grades[1])
    THEN [grades EXCEPT ![1] = Div(Add(grades[1], final_grade), Num(2))]
    ELSE grades

\* lines 64-65
AverageWithLowest(grades, final_grade) ==
    IF grades # <<>>
    THEN [grades EXCEPT ![1] = Div(Add(grades[1], final_grade), Num(2))]
    ELSE grades

\* lines 53-65: the final-exam substitution on the grades kept after drops
ApplyFinalPolicy(self, category_name, grades) ==
    IF FinalPolicyConcerns(self, category_name)
    THEN LET final_grades == CategoryOf(self, "Final").grades
         IN  IF final_grades # <<>>
             THEN LET final_grade == final_grades[1]
                  IN  IF self.final_policy = "Replace Lowest Test"
                      THEN ReplaceLowest(grades, final_grade)
                      ELSE IF self.final_policy = "Average with Lowest Test"
                      THEN AverageWithLowest(grades, final_grade)
                      ELSE grades
             ELSE grades
    ELSE grades

calculate_category_average(self, category_name) ==
    IF category_name \notin CategoryNames(self)
       \/ CategoryOf(self, category_name).grades = <<>>
    THEN Num(0)
    ELSE LET category == CategoryOf(self, category_name)
             kept    == ApplyDrops(sorted(category.grades), category.drops)
             grades  == ApplyFinalPolicy(self, category_name, kept)
         IN  IF grades # <<>> THEN Div(SumSeq(grades), Num(Len(grades)))
             ELSE Num(0)

(***************************************************************************)
(* Course.calculate_current_grade                                          *)
(***************************************************************************)
\* a slip: the weight of a category without grades is counted as used
RECURSIVE CurrentGradeLoop_AllWeights(_, _, _, _)
CurrentGradeLoop_AllWeights(self, i, total_weighted_score, total_weight_used) ==
    IF i > Len(self.categories)
    THEN <<total_weighted_score, total_weight_used>>
    ELSE LET category == self.categories[i]
             average == calculate_category_average(self, category.name)
             weight  == Div(category.weight, Num(100))
         IN  CurrentGradeLoop_AllWeights(self, i + 1,
                 Add(total_weighted_score, Mul(average, weight)),
                 Add(total_weight_used, weight))

\* the loop of lines 74-79 from position i on, with the two accumulators
RECURSIVE CurrentGradeLoop(_, _, _, _)
CurrentGradeLoop(self, i, total_weighted_score, total_weight_used) ==
    IF i > Len(self.categories)
    THEN <<total_weighted_score, total_weight_used>>
    ELSE LET category == self.categories[i]
         IN  IF category.grades # <<>>
             THEN LET average == calculate_category_average(self, category.name)
                      weight  == Div(category.weight, Num(100))
                  IN  CurrentGradeLoop(self, i + 1,
                          Add(total_weighted_score, Mul(average, weight)),
                          Add(total_weight_used, weight))
             ELSE CurrentGradeLoop(self, i + 1,
                          total_weighted_score, total_weight_used)

calculate_current_grade(self) ==
    LET acc == CurrentGradeLoop(self, 1, Num(0), Num(0))
    IN  IF Gt(acc[2], Num(0)) THEN Div(acc[1], acc[2]) ELSE Num(0)

(***************************************************************************)
(* Course.get_gpa_points                                                   *)
(***************************************************************************)
\* sorted(boundaries.items(), reverse=True): the (gpa, minimum) pairs by
\* descending gpa (keys are distinct, so the key decides)
RECURSIVE SortedItemsDesc(_)
SortedItemsDesc(boundaries) ==
    IF DOMAIN boundaries = {} THEN <<>>
    ELSE LET top == CHOOSE k \in DOMAIN boundaries :
                        \A j \in DOMAIN boundaries : Le(j, k)
             rest == [k \in DOMAIN boundaries \ {top} |-> boundaries[k]]
         IN  <<<<top, boundaries[top]>>>> \o SortedItemsDesc(rest)

\* a slip: a percentage equal to the minimum does not earn the GPA point
RECURSIVE GpaScan_Strict(_, _)
GpaScan_Strict(items, percentage) ==
    IF items = <<>> THEN Num(0)
    ELSE IF Gt(percentage, Head(items)[2]) THEN Head(items)[1]
    ELSE GpaScan_Strict(Tail(items), percentage)

\* a slip: the comparison is the wrong way round
RECURSIVE GpaScan_Flipped(_, _)
GpaScan_Flipped(items, percentage) ==
    IF items = <<>> THEN Num(0)
    ELSE IF Le(percentage, Head(items)[2]) THEN Head(items)[1]
    ELSE GpaScan_Flipped(Tail(items), percentage)

\* the scan of lines 91-97 over the sorted pairs
RECURSIVE GpaScan(_, _)
GpaScan(items, percentage) ==
    IF items = <<>> THEN Num(0)
    ELSE IF Ge(percentage, Head(items)[2]) THEN Head(items)[1]
    ELSE GpaScan(Tail(items), percentage)

get_gpa_points(self, percentage) ==
    IF DOMAIN self.grade_boundaries = {} THEN Num(0)
    ELSE GpaScan(SortedItemsDesc(self.grade_boundaries), percentage)

(***************************************************************************)
(* Text fields.  float(text) and int(text) accept decimal integer          *)
(* literals; float also accepts "nan"; anything else raises ValueError     *)
(* (ok = FALSE).                                                           *)
(***************************************************************************)
\* what the user may type or pick
CourseNameInputs == {"Math"}

CategoryNameInputs == {"", "Test", "Final"}

WeightTexts == {"nan", "50", "101"}

AssignmentTexts == {"abc"} \cup {ToString(i) : i \in 1 .. MaxAssignments}

DropTexts == {"", "-1"} \cup {ToString(i) : i \in 1 .. MaxAssignments}

GradeTexts == {"abc", "nan", "-1", "0", "100", "101"}

\* the texts of a boundary field of save_boundaries
BoundaryTexts == {"", "abc", "nan", "101", "50", "60", "70", "80", "90"}

ValueError == [ok |-> FALSE]

\* every text the fields are given
Texts ==
    WeightTexts \cup AssignmentTexts \cup DropTexts \cup GradeTexts
        \cup BoundaryTexts

\* the integer a text is the decimal literal of, as <<i>>, or <<>>
Literal ==
    [text \in Texts |->
        IF \E i \in -1 .. 101 : ToString(i) = text
        THEN <<CHOOSE i \in -1 .. 101 : ToString(i) = text>>
        ELSE <<>>]

float(text) ==
    IF Literal[text] # <<>> THEN [ok |-> TRUE, value |-> Num(Literal[text][1])]
    ELSE IF text = "nan" THEN [ok |-> TRUE, value |-> NaN]
    ELSE ValueError

int(text) ==
    IF Literal[text] # <<>> THEN [ok |-> TRUE, value |-> Literal[text][1]]
    ELSE ValueError

\* the values a grade of the tables can hold (the argument of delete_grade)
GradeValues == {NaN, Num(0), Num(100)}

\* final_policy_combo.addItems(...), lines 510-514
FinalPolicyItems ==
    {"No Replacement",
     "Replace Lowest Test (Experimental, use at own risk)",
     "Average with Lowest Test (Experimental, use at own risk)"}

(***************************************************************************)
(* Handlers of GPACalculator.  The labels and tables that update_analysis, *)
(* update_categories_table and update_grades_table repaint are not state   *)
(* of this model; self.courses (the other courses) is not either.          *)
(***************************************************************************)
\* update_final_policy(policy)
update_final_policy(course, policy) ==
    IF course # None THEN [course EXCEPT !.final_policy = policy] ELSE course

\* the value the credit-hours dialog of add_new_course opens with (line 607)
CreditHoursDefault == Num(3)

\* add_new_course: the new Course becomes current through the course
\* selector's currentTextChanged -> change_current_course ->
\* update_course_display, which moves the policy selector to the course's
\* policy when findText finds it (a move fires update_final_policy)
add_new_course(course_name) ==
    /\ IF current_course = None THEN TRUE
       ELSE current_course.name # course_name
    /\ LET new_course == Course(course_name, CreditHoursDefault)
           found == new_course.final_policy \in FinalPolicyItems
           combo == IF found THEN new_course.final_policy ELSE final_policy_combo
       IN  /\ final_policy_combo' = combo
           /\ current_course' =
                 IF combo # final_policy_combo
                 THEN update_final_policy(new_course, combo) ELSE new_course
    /\ grade_category_combo' = {}
    /\ UNCHANGED last_call

\* the user picks an item of the policy selector; a changed text fires
\* update_final_policy
select_final_policy(text) ==
    /\ text # final_policy_combo
    /\ final_policy_combo' = text
    /\ current_course' = update_final_policy(current_course, text)
    /\ UNCHANGED <<grade_category_combo, last_call>>

\* lines 715-737: does add_category accept the four fields?
AddCategoryAccepts(name, weight_text, assignments_text, drops_text) ==
    /\ name # "" /\ weight_text # "" /\ assignments_text # ""
    /\ float(weight_text).ok
    /\ int(assignments_text).ok
    /\ drops_text = "" \/ int(drops_text).ok
    /\ LET weight == float(weight_text).value
           total_assignments == int(assignments_text).value
           drops == IF drops_text = "" THEN 0 ELSE int(drops_text).value
       IN  /\ ~(Lt(weight, Num(0)) \/ Gt(weight, Num(100)))
           /\ ~(total_assignments < 0)
           /\ ~(drops < 0 \/ drops >= total_assignments)
    /\ name \notin CategoryNames(current_course)

add_category(name, weight_text, assignments_text, drops_text) ==
    /\ current_course # None
    /\ IF AddCategoryAccepts(name, weight_text, assignments_text, drops_text)
       THEN LET weight == float(weight_text).value
                total_assignments == int(assignments_text).value
                drops == IF drops_text = "" THEN 0 ELSE int(drops_text).value
                course == [current_course EXCEPT !.categories =
                              Append(@, GradeCategory(name, weight,
                                                      total_assignments, drops))]
            IN  /\ current_course' = course
                /\ grade_category_combo' = CategoryNames(course)
       ELSE UNCHANGED <<current_course, grade_category_combo>>
    /\ UNCHANGED final_policy_combo

\* del self.current_course.categories[name]
DeleteKey(categories, name) ==
    SelectSeq(categories, LAMBDA c : c.name # name)

\* delete_category(name), the user answering the question with reply
delete_category(name, reply) ==
    /\ current_course # None
    /\ IF name \in CategoryNames(current_course) /\ reply = "Yes"
       THEN LET course == [current_course EXCEPT !.categories =
                               DeleteKey(@, name)]
            IN  /\ current_course' = course
                /\ grade_category_combo' = CategoryNames(course)
       ELSE UNCHANGED <<current_course, grade_category_combo>>
    /\ UNCHANGED final_policy_combo

\* lines 823-840: does add_grade accept the selected category and the text?
AddGradeAccepts(category, grade_text) ==
    /\ category # "" /\ grade_text # ""
    /\ float(grade_text).ok
    /\ LET grade == float(grade_text).value
       IN  ~(Lt(grade, Num(0)) \/ Gt(grade, Num(100)))
    /\ category \in CategoryNames(current_course)
    /\ LET category_obj == CategoryOf(current_course, category)
       IN  ~(Len(category_obj.grades) >= category_obj.total_assignments)

\* add_grade, category being the current text of grade_category_combo
\* ("" when the selector is empty)
add_grade(category, grade_text) ==
    /\ current_course # None
    /\ IF AddGradeAccepts(category, grade_text)
       THEN current_course' =
               [current_course EXCEPT
                  !.categories[IndexOf(current_course, category)].grades =
                      Append(@, float(grade_text).value)]
       ELSE UNCHANGED current_course
    /\ UNCHANGED <<grade_category_combo, final_policy_combo>>

\* a slip: the last element equal to x is removed
RECURSIVE remove_Last(_, _)
remove_Last(s, x) ==
    IF s = <<>> THEN <<>>
    ELSE IF s[Len(s)] = x THEN SubSeq(s, 1, Len(s) - 1)
    ELSE Append(remove_Last(SubSeq(s, 1, Len(s) - 1), x), s[Len(s)])

\* list.remove(x): the sequence without its first element equal to x
RECURSIVE remove(_, _)
remove(s, x) ==
    IF s = <<>> THEN <<>>
    ELSE IF Head(s) = x THEN Tail(s)
    ELSE <<Head(s)>> \o remove(Tail(s), x)

Contains(s, x) == \E i \in DOMAIN s : s[i] = x

\* the sequence without its element at position k
RemoveAt(s, k) == SubSeq(s, 1, k - 1) \o SubSeq(s, k + 1, Len(s))

\* what grades.remove(grade) can leave, grade being the float object of a
\* table row.  remove takes the first element that is the object or equals
\* it.  A number equals every element of its value, so the first of them
\* goes.  A NaN equals nothing, itself included: only the row's own object
\* is found, and which of the NaN of the list that is the model does not
\* record, so any one of them may go.
RemoveResults(s, grade) ==
    IF IsNaN(grade)
    THEN {RemoveAt(s, k) : k \in {i \in DOMAIN s : IsNaN(s[i])}}
    ELSE {remove(s, grade)}

\* delete_grade(category_name, grade, row); remove raises ValueError when
\* the grade is absent (the rows of the table can be stale)
delete_grade(category_name, grade) ==
    /\ current_course # None
    /\ IF /\ category_name \in CategoryNames(current_course)
          /\ Contains(CategoryOf(current_course, category_name).grades, grade)
       THEN \E grades \in RemoveResults(
                   CategoryOf(current_course, category_name).grades, grade) :
               current_course' =
                  [current_course EXCEPT
                     !.categories[IndexOf(current_course, category_name)].grades =
                         grades]
       ELSE UNCHANGED current_course
    /\ UNCHANGED <<grade_category_combo, final_policy_combo>>

(***************************************************************************)
(* The application: courses and categories are created and grades are      *)
(* recorded and deleted through the handlers.                              *)
(***************************************************************************)
Init ==
    /\ current_course = None
    /\ grade_category_combo = {}
    /\ final_policy_combo = "No Replacement"
    /\ last_call = NoCall

Next ==
    \/ \E course_name \in CourseNameInputs : add_new_course(course_name)
    \/ \E text \in FinalPolicyItems : select_final_policy(text)
    \/ \E name \in CategoryNameInputs, weight_text \in WeightTexts,
          assignments_text \in AssignmentTexts, drops_text \in DropTexts :
          add_category(name, weight_text, assignments_text, drops_text)
             /\ UNCHANGED last_call
    \/ \E name \in CategoryNameInputs, reply \in {"Yes", "No"} :
          delete_category(name, reply) /\ UNCHANGED last_call
    \/ \E category \in grade_category_combo \cup {""}, grade_text \in GradeTexts :
          add_grade(category, grade_text) /\ UNCHANGED last_call
    \/ \E category_name \in CategoryNameInputs, grade \in GradeValues :
          delete_grade(category_name, grade) /\ UNCHANGED last_call

Spec == Init /\ [][Next]_vars

(***************************************************************************)
(* The queries of Course, applied to courses drawn from bounded sets.      *)
(* The final policies are the three that Course knows and the texts the    *)
(* policy selector stores.                                                 *)
(***************************************************************************)
KnownPolicies ==
    {"No Replacement", "Replace Lowest Test", "Average with Lowest Test"}

Policies == KnownPolicies \cup FinalPolicyItems

\* the sequences of at most n elements of vals
SeqsUpTo(vals, n) == UNION {[1 .. k -> vals] : k \in 0 .. n}

\* a category as add_category and add_grade leave it, with these grades
CategoryWith(name, weight, total_assignments, drops, grades) ==
    [GradeCategory(name, weight, total_assignments, drops)
        EXCEPT !.grades = grades]

CourseWith(categories, grade_boundaries, final_policy) ==
    [Course("Math", CreditHoursDefault) EXCEPT !.categories = categories,
                           !.grade_boundaries = grade_boundaries,
                           !.final_policy = final_policy]

\* self.calculate_category_average(category_name)
CategoryAverageCall(category_name) ==
    /\ last_call' = [op |-> "calculate_category_average",
                     category_name |-> category_name,
                     ret |-> calculate_category_average(current_course,
                                                        category_name)]
    /\ UNCHANGED <<current_course, grade_category_combo, final_policy_combo>>

\* self.calculate_current_grade()
CurrentGradeCall ==
    /\ last_call' = [op |-> "calculate_current_grade",
                     ret |-> calculate_current_grade(current_course)]
    /\ UNCHANGED <<current_course, grade_category_combo, final_policy_combo>>

\* self.get_gpa_points(percentage)
GpaPointsCall(percentage) ==
    /\ last_call' = [op |-> "get_gpa_points", percentage |-> percentage,
                     ret |-> get_gpa_points(current_course, percentage)]
    /\ UNCHANGED <<current_course, grade_category_combo, final_policy_combo>>

QueriedCategoryNames == {"Test", "Final", "Homework"}

AverageGrades == {Num(40), Num(70), Num(100)}

\* a course of one category, or of one category and a Final category
\* before or after it
InitAverage ==
    /\ \E name \in QueriedCategoryNames,
          grades \in SeqsUpTo(AverageGrades, MaxGrades),
          drops \in 0 .. MaxGrades - 1,
          final_grades \in SeqsUpTo(AverageGrades, MaxFinalGrades),
          order \in {"alone", "first", "second"},
          final_policy \in Policies :
          LET category == CategoryWith(name, Num(50), MaxGrades, drops, grades)
              final == CategoryWith("Final", Num(50), MaxFinalGrades, 0,
                                    final_grades)
              categories ==
                  IF order = "alone" \/ name = "Final" THEN <<category>>
                  ELSE IF order = "first" THEN <<category, final>>
                  ELSE <<final, category>>
          IN  current_course = CourseWith(categories, <<>>, final_policy)
    /\ grade_category_combo = CategoryNames(current_course)
    /\ final_policy_combo = "No Replacement"
    /\ last_call = NoCall

NextAverage ==
    \E category_name \in QueriedCategoryNames : CategoryAverageCall(category_name)

SpecAverage == InitAverage /\ [][NextAverage]_vars

GradedWeights == {Num(0), Num(30), Num(70)}

CurrentGradeGrades == {Num(40), Num(100)}

\* the categories a course of the current-grade queries is made of
GradedCategories ==
    {CategoryWith(name, weight, MaxGradesPerCategory, drops, grades) :
        name \in QueriedCategoryNames, weight \in GradedWeights,
        drops \in {0, 1},
        grades \in SeqsUpTo(CurrentGradeGrades, MaxGradesPerCategory)}

\* a course of at most two categories
InitGrade ==
    /\ \E categories \in SeqsUpTo(GradedCategories, 2),
          final_policy \in KnownPolicies :
          /\ \A i, j \in DOMAIN categories :
                categories[i].name = categories[j].name => i = j
          /\ current_course = CourseWith(categories, <<>>, final_policy)
    /\ grade_category_combo = CategoryNames(current_course)
    /\ final_policy_combo = "No Replacement"
    /\ last_call = NoCall

NextGrade == CurrentGradeCall

SpecGrade == InitGrade /\ [][NextGrade]_vars

\* the GPA points of the boundary fields (line 311)
gpa_points == {Num(4), Rat(7, 2), Num(3), Rat(5, 2), Num(2)}

BoundaryValues == {Num(50), Num(60), Num(70), Num(80), Num(90)}

Percentages == {Num(0), Num(50), Num(65), Num(70), Num(85), Num(90), Num(100)}

\* any boundaries over some of the GPA points
InitGpa ==
    /\ \E keys \in SUBSET gpa_points :
          \E grade_boundaries \in [keys -> BoundaryValues] :
             current_course = CourseWith(<<>>, grade_boundaries, "No Replacement")
    /\ grade_category_combo = {}
    /\ final_policy_combo = "No Replacement"
    /\ last_call = NoCall

NextGpa == \E percentage \in Percentages : GpaPointsCall(percentage)

SpecGpa == InitGpa /\ [][NextGpa]_vars

(***************************************************************************)
(* Recording and deleting grades, applied to courses that already hold     *)
(* grades; last_call keeps the call, the warning shown and the course      *)
(* before it.                                                              *)
(***************************************************************************)
\* the text of the warning add_grade shows (lines 823-848), "" when the
\* grade is appended; a category missing from the dict is a KeyError that
\* nothing catches
AddGradeWarning(category, grade_text) ==
    IF category = "" THEN "Please select a category"
    ELSE IF grade_text = "" THEN "Please enter a grade"
    ELSE IF ~float(grade_text).ok THEN "could not convert string to float"
    ELSE IF Lt(float(grade_text).value, Num(0))
            \/ Gt(float(grade_text).value, Num(100))
    THEN "Grade must be between 0 and 100"
    ELSE IF category \notin CategoryNames(current_course) THEN "KeyError"
    ELSE IF Len(CategoryOf(current_course, category).grades)
               >= CategoryOf(current_course, category).total_assignments
    THEN "Cannot add more grades than total assignments"
    ELSE ""

\* the text of the warning delete_grade shows (lines 876-884), "" when there
\* is none
DeleteGradeWarning(category_name, grade) ==
    IF /\ category_name \in CategoryNames(current_course)
       /\ ~Contains(CategoryOf(current_course, category_name).grades, grade)
    THEN "Error removing grade"
    ELSE ""

AddGradeCall(category, grade_text) ==
    /\ add_grade(category, grade_text)
    /\ last_call' = [op |-> "add_grade", category |-> category,
                     grade_text |-> grade_text,
                     warning |-> AddGradeWarning(category, grade_text),
                     self |-> current_course]

DeleteGradeCall(category_name, grade) ==
    /\ delete_grade(category_name, grade)
    /\ last_call' = [op |-> "delete_grade", category_name |-> category_name,
                     grade |-> grade,
                     warning |-> DeleteGradeWarning(category_name, grade),
                     self |-> current_course]

\* the most assignments of the category whose grades are edited
MaxRecorded == 3

\* a Test category of at most MaxRecorded assignments holding any grades
\* add_grade lets in, alone or followed by a Final of one assignment
InitGrades ==
    /\ \E total \in 1 .. MaxRecorded, with_final \in BOOLEAN :
          \E grades \in SeqsUpTo(GradeValues, total),
             final_grades \in SeqsUpTo(GradeValues, 1) :
             LET test == CategoryWith("Test", Num(50), total, 0, grades)
                 final == CategoryWith("Final", Num(50), 1, 0, final_grades)
             IN  current_course =
                     CourseWith(IF with_final THEN <<test, final>> ELSE <<test>>,
                                <<>>, "No Replacement")
    /\ grade_category_combo = CategoryNames(current_course)
    /\ final_policy_combo = "No Replacement"
    /\ last_call = NoCall

NextGrades ==
    \/ \E category \in grade_category_combo \cup {""}, grade_text \in GradeTexts :
          AddGradeCall(category, grade_text)
    \/ \E category_name \in CategoryNameInputs, grade \in GradeValues :
          DeleteGradeCall(category_name, grade)

SpecGrades == InitGrades /\ [][NextGrades]_vars

(***************************************************************************)
(* GPACalculator.find_minimum_balanced_grades.  current_grades, weights    *)
(* and total_assignments are the copies calculate_required_grades takes    *)
(* of the categories of self (weights divided by 100); combo is the        *)
(* current text of final_policy_combo.                                     *)
(***************************************************************************)
\* a slip: the lowest drops go whatever the number of grades recorded, as in
\* calculate_category_average
ProcessedGrades_AlwaysDrop(category) ==
    IF category.grades # <<>>
    THEN ApplyDrops(sorted(category.grades), category.drops)
    ELSE <<>>

\* lines 1023-1031: the grades of a category after the drops
ProcessedGrades(category) ==
    IF category.grades # <<>>
    THEN LET sorted_grades == sorted(category.grades)
         IN  IF category.drops > 0 /\ Len(sorted_grades) > category.drops
             THEN SliceFrom(sorted_grades, category.drops)
             ELSE sorted_grades
    ELSE <<>>

\* weights[name] of calculate_required_grades (line 945)
DecimalWeight(category) == Div(category.weight, Num(100))

\* total_assignments[category] - drops (lines 1040, 1052)
EffectiveTotal(category) == category.total_assignments - category.drops

\* the loop of lines 1037-1043 from position i on
RECURSIVE ContributionLoop(_, _, _, _)
ContributionLoop(self, i, current_contribution, total_weight_used) ==
    IF i > Len(self.categories)
    THEN <<current_contribution, total_weight_used>>
    ELSE LET category == self.categories[i]
             processed == ProcessedGrades(category)
         IN  IF processed # <<>>
             THEN LET avg == Mean(processed)
                      completed_weight ==
                          Mul(DecimalWeight(category),
                              Div(Num(Len(processed)),
                                  Num(EffectiveTotal(category))))
                  IN  ContributionLoop(self, i + 1,
                          Add(current_contribution, Mul(avg, completed_weight)),
                          Add(total_weight_used, completed_weight))
             ELSE ContributionLoop(self, i + 1,
                          current_contribution, total_weight_used)

\* lines 1034-1046
CurrentContribution(self) ==
    LET acc == ContributionLoop(self, 1, Num(0), Num(0))
    IN  IF Gt(acc[2], Num(0)) THEN Mul(Div(acc[1], acc[2]), acc[2])
        ELSE acc[1]

\* [x for _ in range(n)]; range(n) is empty for n <= 0
Repeat(x, n) == [k \in 1 .. n |-> x]

\* a slip: the drops are not taken off the total
Remaining_ByTotal(category) ==
    LET d == category.total_assignments - Len(ProcessedGrades(category))
    IN  IF d > 0 THEN d ELSE 0

\* max(0, effective_total - current_count), line 1054
Remaining(category) ==
    LET d == EffectiveTotal(category) - Len(ProcessedGrades(category))
    IN  IF d > 0 THEN d ELSE 0

\* a slip: the weight is spread over all the assignments, the dropped too
WeightPer_ByTotal(category) ==
    Div(DecimalWeight(category), Num(category.total_assignments))

\* weights[category] / effective_total (lines 1059, 1063, 1081)
WeightPer(category) ==
    Div(DecimalWeight(category), Num(EffectiveTotal(category)))

\* a slip: no Test slot is left to the final exam
TestSlotsLeft_All(remaining) == remaining

\* range(remaining - 1), line 1060: one Test slot is left to the final exam
TestSlotsLeft(remaining) == remaining - 1

\* lines 1052-1082: the unknown slots one category adds, as (category, weight)
SlotsOf(self, combo, apply_final_policy, category) ==
    LET effective_total == EffectiveTotal(category)
        remaining == Remaining(category)
        weight_per == WeightPer(category)
        has_test == "Test" \in CategoryNames(self)
        test_weight ==
            Div(DecimalWeight(CategoryOf(self, "Test")),
                Num(CategoryOf(self, "Test").total_assignments))
    IN  IF remaining > 0
        THEN IF category.name = "Test" /\ apply_final_policy
             THEN Repeat(<<category.name, weight_per>>,
                         TestSlotsLeft(remaining))
             ELSE IF category.name = "Final" /\ apply_final_policy
             THEN IF combo = "Replace Lowest Test"
                  THEN IF has_test
                       THEN << <<"Final", Add(weight_per, test_weight)>> >>
                       ELSE << <<"Final", weight_per>> >>
                  ELSE IF combo = "Average with Lowest Test"
                  THEN IF has_test
                       THEN << <<"Final", weight_per>>,
                               <<"Test", Div(test_weight, Num(2))>> >>
                       ELSE << <<"Final", weight_per>> >>
                  ELSE << <<"Final", weight_per>> >>
             ELSE Repeat(<<category.name, weight_per>>, remaining)
        ELSE <<>>

\* the loop of lines 1051-1082 from position i on: all_remaining_grades
RECURSIVE AllRemainingGrades(_, _, _, _)
AllRemainingGrades(self, combo, apply_final_policy, i) ==
    IF i > Len(self.categories) THEN <<>>
    ELSE SlotsOf(self, combo, apply_final_policy, self.categories[i])
            \o AllRemainingGrades(self, combo, apply_final_policy, i + 1)

\* lines 1097-1119: the runs of equal category names among the slots, as
\* (category, count): categories_needing_grades zipped with num_remaining
RECURSIVE Runs(_)
Runs(slots) ==
    IF slots = <<>> THEN <<>>
    ELSE LET rest == Runs(Tail(slots))
         IN  IF rest # <<>> /\ rest[1][1] = Head(slots)[1]
             THEN <<<<rest[1][1], rest[1][2] + 1>>>> \o Tail(rest)
             ELSE <<<<Head(slots)[1], 1>>>> \o rest

\* results[cat] = value on a dict kept as a sequence of (key, value)
DictSet(dict, key, value) ==
    IF \E k \in DOMAIN dict : dict[k][1] = key
    THEN [k \in DOMAIN dict |->
             IF dict[k][1] = key THEN <<key, value>> ELSE dict[k]]
    ELSE Append(dict, <<key, value>>)

\* a slip: idx is not advanced, every category is given the first grades
RECURSIVE FormatResults_FromStart(_, _, _, _, _)
FormatResults_FromStart(runs, r, grades, idx, results) ==
    IF r > Len(runs) THEN results
    ELSE FormatResults_FromStart(runs, r + 1, grades, idx,
             DictSet(results, runs[r][1],
                     SubSeq(grades, idx + 1, idx + runs[r][2])))

\* lines 1181-1185: the loop over zip(categories_needing_grades,
\* num_remaining) from run r on, idx grades being consumed
RECURSIVE FormatResults(_, _, _, _, _)
FormatResults(runs, r, grades, idx, results) ==
    IF r > Len(runs) THEN results
    ELSE FormatResults(runs, r + 1, grades, idx + runs[r][2],
             DictSet(results, runs[r][1],
                     SubSeq(grades, idx + 1, idx + runs[r][2])))

\* np.round(x, 2): to the nearest hundredth, halves to the even one
Round2(x) ==
    LET n == x[1] * 100
        d == x[2]
        f == n \div d
        r == n - f * d
        q == IF 2 * r < d THEN f
             ELSE IF 2 * r > d THEN f + 1
             ELSE IF f % 2 = 0 THEN f ELSE f + 1
    IN  IF IsNaN(x) THEN NaN ELSE Rat(q, 100)

\* np.sum(grades * remaining_weights)
RECURSIVE WeightedSum(_, _)
WeightedSum(grades, slots) ==
    IF grades = <<>> THEN Num(0)
    ELSE Add(Mul(Head(grades), Head(slots)[2]),
             WeightedSum(Tail(grades), Tail(slots)))

\* a slip: the constraint ignores the work already completed
constraint_NoContribution(grades, slots, target_grade, current_contribution) ==
    Sub(WeightedSum(grades, slots), target_grade)

\* lines 1153-1156: the residual of the equality constraint
constraint(grades, slots, target_grade, current_contribution) ==
    LET weighted_new == WeightedSum(grades, slots)
        needed == Sub(target_grade, current_contribution)
    IN  Sub(weighted_new, needed)

\* the values the optimizer's answer is made of, on the slots before the last
OptimizerGrid == {Num(0), Num(50), Num(100)}

\* scipy.optimize.minimize(objective, initial_guess, method='SLSQP', ...),
\* lines 1164-1171, for slots of non-zero weight: either it fails, or it
\* succeeds with a point x whose constraint residual is zero.  Which such
\* point minimises the objective is not computed: every point is allowed
\* whose values before the last are on the grid, the last one being what the
\* constraint, linear in it, then requires.  Whether a successful x lies
\* within the bounds is left open; the caller checks the range itself.
minimize(slots, target_grade, current_contribution) ==
    LET n == Len(slots)
        last_for(prefix) ==
            Div(Sub(Num(0), constraint(Append(prefix, Num(0)), slots,
                                       target_grade, current_contribution)),
                slots[n][2])
        points == {Append(prefix, last_for(prefix)) :
                      prefix \in [1 .. n - 1 -> OptimizerGrid]}
    IN  {[success |-> FALSE, x |-> <<>>]}
        \cup {[success |-> TRUE, x |-> x] :
                x \in {y \in points :
                         constraint(y, slots, target_grade,
                                    current_contribution) = Num(0)}}

Outcome(kind, message, path, results, all_remaining_grades, grades) ==
    [kind |-> kind, message |-> message, path |-> path, results |-> results,
     all_remaining_grades |-> all_remaining_grades, grades |-> grades]

\* line 1177, negated: no rounded grade is below 0 or above 100
InRange(grades) ==
    \A i \in DOMAIN grades :
        ~Lt(grades[i], Num(0)) /\ ~Gt(grades[i], Num(100))

\* lines 1158-1187: the outcome of the general path for one answer of minimize
AfterMinimize(result, slots) ==
    IF ~result.success
    THEN Outcome("ValueError", "Could not find a valid solution",
                 "optimizer", <<>>, slots, <<>>)
    ELSE LET grades == [i \in DOMAIN result.x |-> Round2(result.x[i])]
         IN  IF ~InRange(grades)
             THEN Outcome("ValueError",
                          "Required grades would be outside possible range",
                          "optimizer", <<>>, slots, grades)
             ELSE Outcome("ok", "", "optimizer",
                          FormatResults(Runs(slots), 1, grades, 0, <<>>),
                          slots, grades)

\* no category has a recorded grade: current_contribution is still the int 0
\* and not a numpy float (lines 1034-1046)
NothingRecorded(self) ==
    \A i \in DOMAIN self.categories : self.categories[i].grades = <<>>

\* the outcomes of find_minimum_balanced_grades: the result ({} is "empty"),
\* or the exception raised.  The objective divides 1 by each slot weight
\* (line 1144), Python floats, so a zero weight raises ZeroDivisionError.
\* The shortcut divides by the Final weight (line 1090): between Python
\* floats, when nothing is recorded, a zero weight raises ZeroDivisionError;
\* once a grade is recorded the dividend is a numpy float and the quotient
\* is inf or nan, which fails the range test.
find_minimum_balanced_grades(self, combo, target_grade, apply_final_policy) ==
    LET current_contribution == CurrentContribution(self)
        slots == AllRemainingGrades(self, combo, apply_final_policy, 1)
    IN  IF slots = <<>>
        THEN {Outcome("empty", "", "none", <<>>, slots, <<>>)}
        ELSE IF Len(slots) = 1 /\ slots[1][1] = "Final"
        THEN LET final_weight == slots[1][2]
                 needed_grade ==
                     Div(Sub(target_grade, current_contribution), final_weight)
             IN  IF final_weight = Num(0) /\ NothingRecorded(self)
                 THEN {Outcome("ZeroDivisionError", "float division by zero",
                               "final", <<>>, slots, <<>>)}
                 ELSE IF Le(Num(0), needed_grade) /\ Le(needed_grade, Num(100))
                 THEN {Outcome("ok", "", "final",
                               << <<"Final", <<needed_grade>> >> >>,
                               slots, <<needed_grade>>)}
                 ELSE {Outcome("ValueError",
                         "Cannot achieve the target grade with the remaining Final",
                         "final", <<>>, slots, <<>>)}
        ELSE IF \E i \in DOMAIN slots : slots[i][2] = Num(0)
        THEN {Outcome("ZeroDivisionError", "float division by zero",
                      "optimizer", <<>>, slots, <<>>)}
        ELSE {AfterMinimize(result, slots) :
                 result \in minimize(slots, target_grade, current_contribution)}

\* lines 962-997 of calculate_required_grades: the call made for one grade
\* boundary, apply_final_policy being decided from the policy selector and
\* the recorded Test grades.  The call is applied once to each course.
FindMinimumBalancedGradesCall(boundary) ==
    /\ current_course # None
    /\ last_call = NoCall
    /\ LET policy == final_policy_combo
           apply_final_policy ==
               /\ policy # "No Replacement"
               /\ "Test" \in CategoryNames(current_course)
               /\ CategoryOf(current_course, "Test").grades # <<>>
       IN  \E outcome \in find_minimum_balanced_grades(
                              current_course, final_policy_combo,
                              boundary, apply_final_policy) :
              last_call' = [op |-> "find_minimum_balanced_grades",
                            target_grade |-> boundary,
                            apply_final_policy |-> apply_final_policy,
                            outcome |-> outcome]
    /\ UNCHANGED <<current_course, grade_category_combo, final_policy_combo>>

\* the most assignments of a category of the solved courses
MaxTotal == 2

SolvedCategoryNames == {"Test", "Final", "Quiz"}

SolvedWeights == {Num(40), Num(60), Num(100)}

SolvedGrades == {Num(50), Num(100)}

Boundaries == {Num(60), Num(90)}

\* the categories of at most total assignments: drops < total_assignments
\* and at most total_assignments grades
SolvedCategories(names, most) ==
    UNION {{CategoryWith(name, weight, total, drops, grades) :
               name \in names, weight \in SolvedWeights,
               drops \in 0 .. total - 1,
               grades \in SeqsUpTo(SolvedGrades, total)} :
           total \in 1 .. most}

\* the policy of the course and the text of the selector: the selector
\* shows the course's policy when it has that text among its items
\* (update_course_display), and keeps its text when it has not
PolicyAndSelector ==
    {<<policy, policy>> : policy \in FinalPolicyItems}
    \cup {<<"Replace Lowest Test",
            "Replace Lowest Test (Experimental, use at own risk)">>}

\* a course of one category, or of one category and a category of a single
\* assignment before or after it
InitSolve ==
    /\ \E category \in SolvedCategories(SolvedCategoryNames, MaxTotal),
          order \in {"alone", "first", "second"},
          ps \in PolicyAndSelector :
          \E other \in SolvedCategories(SolvedCategoryNames \ {category.name}, 1) :
             LET categories ==
                     IF order = "alone" THEN <<category>>
                     ELSE IF order = "first" THEN <<category, other>>
                     ELSE <<other, category>>
             IN  /\ current_course = CourseWith(categories, <<>>, ps[1])
                 /\ final_policy_combo = ps[2]
    /\ grade_category_combo = CategoryNames(current_course)
    /\ last_call = NoCall

NextSolve == \E boundary \in Boundaries : FindMinimumBalancedGradesCall(boundary)

SpecSolve == InitSolve /\ [][NextSolve]_vars

(***************************************************************************)
(* GPACalculator.calculate_required_grades: the solver is called for each  *)
(* grade boundary.  Weights, grades and boundaries are numbers here.       *)
(***************************************************************************)
\* lines 953-962: is the solver called with apply_final_policy=True?
ApplyFinalPolicyFlag(self, policy) ==
    /\ policy # "No Replacement"
    /\ "Test" \in CategoryNames(self)
    /\ CategoryOf(self, "Test").grades # <<>>

\* lines 999-1012: what results_text gets for the outcome of one boundary;
\* an exception other than ValueError is not caught in the loop
ReportOf(outcome) ==
    IF outcome.kind = "empty" THEN "No remaining assignments"
    ELSE IF outcome.kind = "ok" THEN "Need"
    ELSE IF outcome.kind = "ValueError" THEN "Cannot achieve this grade"
    ELSE "none"

\* the attempt made for one (gpa, boundary) item
Attempt(item, outcome) ==
    [gpa |-> item[1], boundary |-> item[2], outcome |-> outcome,
     report |-> ReportOf(outcome)]

\* the loop of lines 957-1012 over the remaining items: what the call can
\* end with.  shown is "text" when the loop ends and results_text is set
\* (line 1014), "error" when an exception left it (lines 1016-1017).
RECURSIVE RequiredGradesLoop(_, _, _, _, _)
RequiredGradesLoop(self, policy, apply_final_policy, items, attempts) ==
    IF items = <<>>
    THEN {[shown |-> "text", attempts |-> attempts]}
    ELSE UNION {
           IF outcome.kind = "ZeroDivisionError"
           THEN {[shown |-> "error",
                  attempts |-> Append(attempts, Attempt(Head(items), outcome))]}
           ELSE RequiredGradesLoop(self, policy, apply_final_policy,
                    Tail(items),
                    Append(attempts, Attempt(Head(items), outcome))) :
           outcome \in find_minimum_balanced_grades(
                           self, policy, Head(items)[2], apply_final_policy)}

\* calculate_required_grades, policy being the text of final_policy_combo
calculate_required_grades(self, policy) ==
    IF self = None THEN {[shown |-> "error", attempts |-> <<>>]}
    ELSE IF DOMAIN self.grade_boundaries = {}
    THEN {[shown |-> "error", attempts |-> <<>>]}
    ELSE RequiredGradesLoop(self, policy, ApplyFinalPolicyFlag(self, policy),
                            SortedItemsDesc(self.grade_boundaries), <<>>)

\* the call is applied once to each course
CalculateRequiredGradesCall ==
    /\ last_call = NoCall
    /\ \E ret \in calculate_required_grades(current_course, final_policy_combo) :
          last_call' = [op |-> "calculate_required_grades",
                        policy |-> final_policy_combo,
                        self |-> current_course, ret |-> ret]
    /\ UNCHANGED <<current_course, grade_category_combo, final_policy_combo>>

\* the most assignments of a category of these courses
MaxCapacity == 3

RequiredWeights == {Num(0), Num(40), Num(100)}

OtherWeights == {Num(0), Num(60)}

RequiredGrades == {Num(40), Num(100)}

\* the boundaries saved: none, one, or two
RequiredBoundaries ==
    {<<>>,
     [gpa \in {Num(4)} |-> Num(100)],
     [gpa \in {Num(4), Num(3)} |-> IF gpa = Num(4) THEN Num(100) ELSE Num(60)]}

\* the categories of exactly total assignments
CategoriesOf(names, weights, total) ==
    {CategoryWith(name, weight, total, drops, grades) :
        name \in names, weight \in weights, drops \in 0 .. total - 1,
        grades \in SeqsUpTo(RequiredGrades, total)}

\* a course of one category, alone or followed by a category of a single
\* assignment, under No Replacement or a policy picked in the selector
InitRequired ==
    /\ \E total \in 1 .. MaxCapacity, alone \in BOOLEAN,
          policy \in {"No Replacement",
                      "Replace Lowest Test (Experimental, use at own risk)"},
          grade_boundaries \in RequiredBoundaries :
          \E category \in CategoriesOf(SolvedCategoryNames, RequiredWeights, total) :
             \E other \in CategoriesOf(SolvedCategoryNames \ {category.name},
                                       OtherWeights, 1) :
                /\ current_course =
                      CourseWith(IF alone THEN <<category>>
                                 ELSE <<category, other>>,
                                 grade_boundaries, policy)
                /\ final_policy_combo = policy
    /\ grade_category_combo = CategoryNames(current_course)
    /\ last_call = NoCall

NextRequired == CalculateRequiredGradesCall

SpecRequired == InitRequired /\ [][NextRequired]_vars

(***************************************************************************)
(* find_minimum_balanced_grades called twice for the same target.          *)
(***************************************************************************)
\* a slip: the drops are taken off the grades of the course themselves
CourseAfterSolve_DropsInPlace(self) ==
    [self EXCEPT !.categories =
        [i \in DOMAIN self.categories |->
            [self.categories[i] EXCEPT
                !.grades = ProcessedGrades(self.categories[i])]]]

\* the course after find_minimum_balanced_grades returned or raised: the
\* solver works on copies (category.grades.copy(), line 944; sorted(grades),
\* line 1025) and assigns to nothing of the course
CourseAfterSolve(self) == self

\* what minimize is given: the objective closes over the slots, the
\* constraint over their weights, target_grade and current_contribution; the
\* initial guess is target_grade for every slot, the bounds and the options
\* are fixed (lines 1128-1171)
MinimizeArguments(self, policy, target_grade) ==
    <<AllRemainingGrades(self, policy,
                         ApplyFinalPolicyFlag(self, policy), 1),
      target_grade, CurrentContribution(self)>>

\* the first call for a boundary of the course
FirstSolve(boundary) ==
    /\ last_call = NoCall
    /\ \E outcome \in find_minimum_balanced_grades(
                           current_course, final_policy_combo, boundary,
                           ApplyFinalPolicyFlag(current_course,
                                                final_policy_combo)) :
          last_call' = [op |-> "find_minimum_balanced_grades", calls |-> 1,
                        target_grade |-> boundary,
                        arguments |-> MinimizeArguments(current_course,
                                          final_policy_combo, boundary),
                        first |-> outcome, outcome |-> outcome]
    /\ current_course' = CourseAfterSolve(current_course)
    /\ UNCHANGED <<grade_category_combo, final_policy_combo>>

\* the second call for the same boundary.  SLSQP draws no random numbers:
\* given the arguments of the first call again, minimize returns what it
\* returned then; given other arguments, it returns any of its results.
SecondSolve ==
    /\ last_call.op = "find_minimum_balanced_grades"
    /\ last_call.calls = 1
    /\ LET outcomes ==
               find_minimum_balanced_grades(
                   current_course, final_policy_combo, last_call.target_grade,
                   ApplyFinalPolicyFlag(current_course, final_policy_combo))
           same_arguments ==
               MinimizeArguments(current_course, final_policy_combo,
                                 last_call.target_grade) = last_call.arguments
       IN  \E outcome \in outcomes :
              /\ (same_arguments /\ outcome.path = "optimizer") =>
                     outcome = last_call.first
              /\ last_call' = [last_call EXCEPT !.calls = 2,
                                                !.outcome = outcome]
    /\ current_course' = CourseAfterSolve(current_course)
    /\ UNCHANGED <<grade_category_combo, final_policy_combo>>

InitTwice == InitRequired

NextTwice ==
    \/ \E gpa \in DOMAIN current_course.grade_boundaries :
          FirstSolve(current_course.grade_boundaries[gpa])
    \/ SecondSolve

SpecTwice == InitTwice /\ [][NextTwice]_vars

(***************************************************************************)
(* Course.to_dict / Course.from_dict and GradeCategory.to_dict /            *)
(* GradeCategory.from_dict.  A dict is a record, the dict of categories a   *)
(* sequence of (key, dict) pairs in insertion order.                        *)
(***************************************************************************)
\* float(x) of a float x: the float of the same value (NaN stays NaN)
AsFloat(x) == Rat(x[1], x[2])

\* int(i) of an int i
AsInt(i) == i

\* GradeCategory.to_dict
GradeCategory_to_dict(self) ==
    [name |-> self.name,
     weight |-> AsFloat(self.weight),
     total_assignments |-> AsInt(self.total_assignments),
     drops |-> AsInt(self.drops),
     grades |-> [i \in DOMAIN self.grades |-> AsFloat(self.grades[i])]]

\* a slip: the grades are restored in ascending order
GradeCategory_from_dict_Sorted(data) ==
    [GradeCategory(data.name, AsFloat(data.weight),
                   AsInt(data.total_assignments), AsInt(data.drops))
        EXCEPT !.grades = sorted([i \in DOMAIN data.grades |->
                                     AsFloat(data.grades[i])])]

\* GradeCategory.from_dict
GradeCategory_from_dict(data) ==
    [GradeCategory(data.name, AsFloat(data.weight),
                   AsInt(data.total_assignments), AsInt(data.drops))
        EXCEPT !.grades = [i \in DOMAIN data.grades |->
                              AsFloat(data.grades[i])]]

\* {float(k): float(v) for k, v in boundaries.items()}: a later item of an
\* equal key would replace the earlier one
FloatItems(boundaries) ==
    [key \in {AsFloat(k) : k \in DOMAIN boundaries} |->
        AsFloat(boundaries[CHOOSE k \in DOMAIN boundaries : AsFloat(k) = key])]

\* Course.to_dict
to_dict(self) ==
    [name |-> self.name,
     credit_hours |-> AsFloat(self.credit_hours),
     semester |-> self.semester,
     categories |-> [i \in DOMAIN self.categories |->
                        <<self.categories[i].name,
                          GradeCategory_to_dict(self.categories[i])>>],
     grade_boundaries |-> FloatItems(self.grade_boundaries),
     final_policy |-> self.final_policy]

\* Course.from_dict: the categories are restored under their keys, in the
\* order of the dict
from_dict(data) ==
    [Course(data.name, AsFloat(data.credit_hours)) EXCEPT
        !.semester = data.semester,
        !.grade_boundaries = FloatItems(data.grade_boundaries),
        !.final_policy = data.final_policy,
        !.categories = [i \in DOMAIN data.categories |->
                           GradeCategory_from_dict(data.categories[i][2])]]

\* Course.from_dict(self.to_dict())
RoundTripCall ==
    /\ last_call = NoCall
    /\ last_call' = [op |-> "from_dict", data |-> to_dict(current_course),
                     ret |-> from_dict(to_dict(current_course))]
    /\ UNCHANGED <<current_course, grade_category_combo, final_policy_combo>>

\* the most assignments of a category of the serialized courses
MaxSerialized == 2

SerializedWeights == {NaN, Num(40)}

SerializedCreditHours == {Num(3), Rat(1, 2)}

SerializedSemesters == {"", "Fall 2024"}

SerializedPolicies ==
    {"No Replacement", "Replace Lowest Test",
     "Average with Lowest Test (Experimental, use at own risk)"}

\* a course of one category holding any grades add_grade lets in, alone or
\* followed by a Final, with any credit hours, semester, boundaries and policy
InitRoundTrip ==
    /\ \E name \in {"Test", "Quiz"}, weight \in SerializedWeights,
          total \in 1 .. MaxSerialized,
          final_grades \in {<<>>, <<Num(100)>>}, alone \in BOOLEAN,
          credit_hours \in SerializedCreditHours,
          semester \in SerializedSemesters,
          grade_boundaries \in RequiredBoundaries,
          final_policy \in SerializedPolicies :
          \E drops \in 0 .. total - 1, grades \in SeqsUpTo(GradeValues, total) :
             LET category == CategoryWith(name, weight, total, drops, grades)
                 final == CategoryWith("Final", Num(60), 1, 0, final_grades)
             IN  current_course =
                    [CourseWith(IF alone THEN <<category>>
                                ELSE <<category, final>>,
                                grade_boundaries, final_policy)
                        EXCEPT !.credit_hours = credit_hours,
                               !.semester = semester]
    /\ grade_category_combo = CategoryNames(current_course)
    /\ final_policy_combo = "No Replacement"
    /\ last_call = NoCall

NextRoundTrip == RoundTripCall

SpecRoundTrip == InitRoundTrip /\ [][NextRoundTrip]_vars

(***************************************************************************)
(* The queries and the solver as operations on the course: last_call keeps *)
(* the course before the call, current_course becomes the course after it. *)
(***************************************************************************)
\* a slip: the grades of the category themselves are sorted, not a copy
CourseAfterAverage_SortedInPlace(self, category_name) ==
    IF category_name \in CategoryNames(self)
    THEN [self EXCEPT
             !.categories[IndexOf(self, category_name)].grades = sorted(@)]
    ELSE self

\* the course after calculate_category_average: grades is a new list (the
\* comprehension over sorted(category.grades), line 47); the slice of line
\* 51 and the assignments to grades[0] of lines 62 and 65 work on that list
CourseAfterAverage(self, category_name) == self

\* the course after calculate_current_grade: calculate_category_average is
\* called for the categories holding grades, from position i on, and
\* nothing else touches the course
RECURSIVE CourseAfterCurrentGrade(_, _)
CourseAfterCurrentGrade(self, i) ==
    IF i > Len(self.categories) THEN self
    ELSE CourseAfterCurrentGrade(
             IF self.categories[i].grades # <<>>
             THEN CourseAfterAverage(self, self.categories[i].name)
             ELSE self,
             i + 1)

\* the course after get_gpa_points: the boundaries are read through a
\* generator and sorted into a new list
CourseAfterGpaPoints(self, percentage) == self

QueryAverage(category_name) ==
    /\ last_call = NoCall
    /\ last_call' = [op |-> "calculate_category_average",
                     self |-> current_course,
                     ret |-> calculate_category_average(current_course,
                                                        category_name)]
    /\ current_course' = CourseAfterAverage(current_course, category_name)
    /\ UNCHANGED <<grade_category_combo, final_policy_combo>>

QueryCurrentGrade ==
    /\ last_call = NoCall
    /\ last_call' = [op |-> "calculate_current_grade",
                     self |-> current_course,
                     ret |-> calculate_current_grade(current_course)]
    /\ current_course' = CourseAfterCurrentGrade(current_course, 1)
    /\ UNCHANGED <<grade_category_combo, final_policy_combo>>

QueryGpaPoints(percentage) ==
    /\ last_call = NoCall
    /\ last_call' = [op |-> "get_gpa_points", self |-> current_course,
                     ret |-> get_gpa_points(current_course, percentage)]
    /\ current_course' = CourseAfterGpaPoints(current_course, percentage)
    /\ UNCHANGED <<grade_category_combo, final_policy_combo>>

\* find_minimum_balanced_grades returning or raising
QuerySolve(boundary) ==
    /\ last_call = NoCall
    /\ \E outcome \in find_minimum_balanced_grades(
                           current_course, final_policy_combo, boundary,
                           ApplyFinalPolicyFlag(current_course,
                                                final_policy_combo)) :
          last_call' = [op |-> "find_minimum_balanced_grades",
                        self |-> current_course, outcome |-> outcome]
    /\ current_course' = CourseAfterSolve(current_course)
    /\ UNCHANGED <<grade_category_combo, final_policy_combo>>

\* a Test of MaxTotal assignments and a Final of one, holding any grades,
\* under each policy; the selector shows the policy when it is one of its
\* items
InitReadOnly ==
    /\ \E drops \in 0 .. MaxTotal - 1,
          grades \in SeqsUpTo(RequiredGrades, MaxTotal),
          final_grades \in SeqsUpTo(RequiredGrades, 1),
          grade_boundaries \in RequiredBoundaries,
          final_policy \in Policies :
          /\ current_course =
                CourseWith(
                    <<CategoryWith("Test", Num(40), MaxTotal, drops, grades),
                      CategoryWith("Final", Num(60), 1, 0, final_grades)>>,
                    grade_boundaries, final_policy)
          /\ final_policy_combo =
                IF final_policy \in FinalPolicyItems THEN final_policy
                ELSE "No Replacement"
    /\ grade_category_combo = CategoryNames(current_course)
    /\ last_call = NoCall

NextReadOnly ==
    \/ \E category_name \in QueriedCategoryNames : QueryAverage(category_name)
    \/ QueryCurrentGrade
    \/ \E percentage \in Percentages : QueryGpaPoints(percentage)
    \/ \E boundary \in Boundaries : QuerySolve(boundary)

SpecReadOnly == InitReadOnly /\ [][NextReadOnly]_vars

(***************************************************************************)
(* The policy selector and the policy of the current course: courses are   *)
(* created, loaded from a file and given a policy, and                     *)
(* calculate_required_grades reads the selector.                           *)
(***************************************************************************)
\* load_all_data, course_data being the dict of the course the file makes
\* current (the first course of its latest semester), or None when it makes
\* none current.  current_course is set to None without the display being
\* updated (line 1513); change_current_course then shows the course:
\* update_course_display moves the policy selector to the course's policy
\* when findText finds it, and leaves the selector alone when it does not.
load_all_data(course_data) ==
    /\ IF course_data = None
       THEN /\ current_course' = None
            /\ UNCHANGED <<grade_category_combo, final_policy_combo>>
       ELSE LET course == from_dict(course_data)
                found == course.final_policy \in FinalPolicyItems
                combo == IF found THEN course.final_policy
                         ELSE final_policy_combo
            IN  /\ final_policy_combo' = combo
                /\ current_course' =
                      IF combo # final_policy_combo
                      THEN update_final_policy(course, combo) ELSE course
                /\ grade_category_combo' = CategoryNames(course)
    /\ UNCHANGED last_call

\* the courses of the files loaded: a Test with one of its two grades and a
\* Final still to be taken, under any policy string a file may hold
LoadedCourses ==
    {[CourseWith(<<CategoryWith("Test", Num(40), 2, 0, <<Num(40)>>),
                   CategoryWith("Final", Num(60), 1, 0, <<>>)>>,
                 grade_boundaries, final_policy)
         EXCEPT !.semester = "Fall 2024"] :
        grade_boundaries \in RequiredBoundaries,
        final_policy \in Policies}

InitPolicy == Init

NextPolicy ==
    \/ \E course_name \in CourseNameInputs : add_new_course(course_name)
    \/ \E text \in FinalPolicyItems : select_final_policy(text)
    \/ \E course_data \in {None} \cup {to_dict(course) : course \in LoadedCourses} :
          load_all_data(course_data)
    \/ CalculateRequiredGradesCall

SpecPolicy == InitPolicy /\ [][NextPolicy]_vars

(***************************************************************************)
(* Adding and deleting categories; last_call keeps the call, whether       *)
(* add_category accepted its fields, and the course before the call.       *)
(***************************************************************************)
AddCategoryCall(name, weight_text, assignments_text, drops_text) ==
    /\ add_category(name, weight_text, assignments_text, drops_text)
    /\ last_call' = [op |-> "add_category", name |-> name,
                     accepted |-> AddCategoryAccepts(name, weight_text,
                                      assignments_text, drops_text),
                     self |-> current_course]

DeleteCategoryCall(name, reply) ==
    /\ delete_category(name, reply)
    /\ last_call' = [op |-> "delete_category", name |-> name,
                     accepted |-> reply = "Yes",
                     self |-> current_course]

\* a new course, without categories
InitCategories ==
    /\ current_course = Course("Math", CreditHoursDefault)
    /\ grade_category_combo = {}
    /\ final_policy_combo = "No Replacement"
    /\ last_call = NoCall

NextCategories ==
    \/ \E name \in CategoryNameInputs, weight_text \in WeightTexts,
          assignments_text \in AssignmentTexts, drops_text \in DropTexts :
          AddCategoryCall(name, weight_text, assignments_text, drops_text)
    \/ \E name \in CategoryNameInputs, reply \in {"Yes", "No"} :
          DeleteCategoryCall(name, reply)

SpecCategories == InitCategories /\ [][NextCategories]_vars

(***************************************************************************)
(* GPACalculator.save_boundaries: the five boundary fields are read in the *)
(* order of boundary_inputs, GPA 4.0 first; last_call keeps the warning    *)
(* shown and the course before the call.                                   *)
(***************************************************************************)
\* the keys of boundary_inputs, in the order of gpa_points (line 310)
boundary_inputs == <<Num(4), Rat(7, 2), Num(3), Rat(5, 2), Num(2)>>

\* lines 1197-1204: the error raised while the fields are read from field i
\* on, "" when every field is accepted
RECURSIVE ReadBoundariesError(_, _)
ReadBoundariesError(texts, i) ==
    IF i > Len(boundary_inputs) THEN ""
    ELSE IF texts[i] = "" THEN "Please enter a boundary"
    ELSE IF ~float(texts[i]).ok THEN "could not convert string to float"
    ELSE IF Lt(float(texts[i]).value, Num(0))
            \/ Gt(float(texts[i]).value, Num(100))
    THEN "Grade boundary must be between 0 and 100"
    ELSE ReadBoundariesError(texts, i + 1)

\* new_boundaries once every field is read (lines 1196-1204)
new_boundaries(texts) ==
    [gpa \in gpa_points |->
        float(texts[CHOOSE i \in DOMAIN boundary_inputs :
                        boundary_inputs[i] = gpa]).value]

\* lines 1207-1211: does the loop over the keys, highest GPA first, meet a
\* value that is >= the value before it?
RECURSIVE NotDescending(_, _)
NotDescending(items, prev_value) ==
    IF items = <<>> THEN FALSE
    ELSE IF Ge(Head(items)[2], prev_value) THEN TRUE
    ELSE NotDescending(Tail(items), Head(items)[2])

\* the warning save_boundaries shows, "" when the boundaries are saved
SaveBoundariesWarning(texts) ==
    IF current_course = None THEN "No course selected"
    ELSE IF ReadBoundariesError(texts, 1) # ""
    THEN ReadBoundariesError(texts, 1)
    ELSE IF NotDescending(SortedItemsDesc(new_boundaries(texts)), Num(101))
    THEN "Grade boundaries must be in descending order"
    ELSE ""

\* save_boundaries, texts being the texts of the five fields
save_boundaries(texts) ==
    /\ IF SaveBoundariesWarning(texts) = ""
       THEN current_course' =
               [current_course EXCEPT !.grade_boundaries = new_boundaries(texts)]
       ELSE UNCHANGED current_course
    /\ UNCHANGED <<grade_category_combo, final_policy_combo>>

\* the call is applied once to each course
SaveBoundariesCall(texts) ==
    /\ last_call = NoCall
    /\ save_boundaries(texts)
    /\ last_call' = [op |-> "save_boundaries",
                     warning |-> SaveBoundariesWarning(texts),
                     self |-> current_course]

\* boundaries saved before: 90, 80, 70, 60 and 50 for the five GPA points
SavedBoundaries ==
    [gpa \in gpa_points |->
        Add(Num(10), Mul(Num(20), gpa))]

\* no course, a new course, or a course whose boundaries were saved
InitBoundaries ==
    /\ current_course \in
          {None, CourseWith(<<>>, <<>>, "No Replacement"),
           CourseWith(<<>>, SavedBoundaries, "No Replacement")}
    /\ grade_category_combo = {}
    /\ final_policy_combo = "No Replacement"
    /\ last_call = NoCall

NextBoundaries ==
    \E texts \in [DOMAIN boundary_inputs -> BoundaryTexts] : SaveBoundariesCall(texts)

SpecBoundaries == InitBoundaries /\ [][NextBoundaries]_vars

(***************************************************************************)
(* Properties.  The helpers below restate what a claim expects without     *)
(* the code's sort, slice and loops.                                       *)
(***************************************************************************)
\* a smallest element of a non-empty sequence of numbers
MinOf(s) == CHOOSE x \in {s[i] : i \in DOMAIN s} :
                \A i \in DOMAIN s : Le(x, s[i])

\* the sequence without one occurrence of x
RECURSIVE Without(_, _)
Without(s, x) ==
    IF s = <<>> THEN <<>>
    ELSE IF s[Len(s)] = x THEN SubSeq(s, 1, Len(s) - 1)
    ELSE Append(Without(SubSeq(s, 1, Len(s) - 1), x), s[Len(s)])

\* the grades with the d lowest removed (d <= Len(s))
RECURSIVE LowestRemoved(_, _)
LowestRemoved(s, d) ==
    IF d = 0 THEN s ELSE LowestRemoved(Without(s, MinOf(s)), d - 1)

\* the sum of f[x] over the finite set S
RECURSIVE SumOver(_, _)
SumOver(S, f) ==
    IF S = {} THEN Num(0)
    ELSE LET x == CHOOSE y \in S : TRUE
         IN  Add(f[x], SumOver(S \ {x}, f))

AverageCalled == last_call.op = "calculate_category_average"

\* the category the last calculate_category_average was asked for exists
QueriedExists ==
    /\ AverageCalled
    /\ last_call.category_name \in CategoryNames(current_course)

Queried == CategoryOf(current_course, last_call.category_name)

\* lines 54-65 substitute the Final grade into the queried category
SubstitutionApplies ==
    /\ last_call.category_name = "Test"
    /\ "Final" \in CategoryNames(current_course)
    /\ CategoryOf(current_course, "Final").grades # <<>>
    /\ current_course.final_policy \in
          {"Replace Lowest Test", "Average with Lowest Test"}

\* the queried category has drops = d > 0 and n > d recorded grades
DropsCase ==
    /\ QueriedExists
    /\ Queried.drops > 0
    /\ Len(Queried.grades) > Queried.drops

MeanWithoutLowest ==
    Mean(LowestRemoved(Queried.grades, Queried.drops))

\* C3 as stated: for every category with drops = d > 0 and n > d recorded
\* grades, calculate_category_average is the mean of the n - d grades left
\* when the d lowest are removed.
C3_Original == DropsCase => last_call.ret = MeanWithoutLowest

\* C3 amended: the same, for every category to which the final-exam
\* substitution does not apply (the category is not Test, or Final has no
\* recorded grade, or the policy is neither Replace Lowest Test nor Average
\* with Lowest Test).
C3_DropsLowest ==
    (DropsCase /\ ~SubstitutionApplies) =>
        /\ Len(LowestRemoved(Queried.grades, Queried.drops))
              = Len(Queried.grades) - Queried.drops
        /\ last_call.ret = MeanWithoutLowest

\* a category with drops 1 and three grades recorded out of order, whose
\* average is that of the two highest
C3_Witness ==
    /\ DropsCase /\ ~SubstitutionApplies
    /\ Queried.drops = 1
    /\ Queried.grades = <<Num(70), Num(40), Num(100)>>
    /\ last_call.ret = Num(85)

\* the queried category has drops = 0 and at least one recorded grade
NoDropsCase ==
    /\ QueriedExists
    /\ Queried.drops = 0
    /\ Queried.grades # <<>>

\* C4 as stated: for all categories, whatever the name and the final policy,
\* calculate_category_average with drops = 0 is the arithmetic mean of the
\* recorded grades.
C4_Original == NoDropsCase => last_call.ret = Mean(Queried.grades)

\* C4 amended: with drops = 0 the average is the arithmetic mean of the
\* recorded grades for every category to which the final-exam substitution
\* does not apply (the category is not Test, or Final has no recorded grade,
\* or the policy is neither Replace Lowest Test nor Average with Lowest Test).
C4_MeanWithoutDrops ==
    (NoDropsCase /\ ~SubstitutionApplies) =>
        last_call.ret = Mean(Queried.grades)

\* a Test category without drops, beside a Final with a grade, under a policy
\* text of the selector: the plain mean
C4_Witness ==
    /\ NoDropsCase /\ ~SubstitutionApplies
    /\ last_call.category_name = "Test"
    /\ current_course.final_policy \notin KnownPolicies
    /\ "Final" \in CategoryNames(current_course)
    /\ CategoryOf(current_course, "Final").grades = <<Num(100)>>
    /\ Queried.grades = <<Num(100), Num(40)>>
    /\ last_call.ret = Num(70)

\* the positions of the categories with at least one recorded grade
GradedPositions ==
    {i \in DOMAIN current_course.categories :
        current_course.categories[i].grades # <<>>}

\* sum of weight/100 over the categories with recorded grades
WeightUsed ==
    SumOver(GradedPositions,
            [i \in GradedPositions |->
                Div(current_course.categories[i].weight, Num(100))])

\* sum of category average times weight/100 over the same categories
WeightedScore ==
    SumOver(GradedPositions,
            [i \in GradedPositions |->
                Mul(calculate_category_average(current_course,
                        current_course.categories[i].name),
                    Div(current_course.categories[i].weight, Num(100)))])

\* C5: calculate_current_grade is the sum over the categories with recorded
\* grades of average times weight/100, divided by the sum of weight/100 over
\* the same categories when that is positive, and 0 otherwise; so it is 0
\* when no category has a recorded grade.
C5_CurrentGrade ==
    last_call.op = "calculate_current_grade" =>
        /\ Gt(WeightUsed, Num(0)) =>
              last_call.ret = Div(WeightedScore, WeightUsed)
        /\ ~Gt(WeightUsed, Num(0)) => last_call.ret = Num(0)
        /\ GradedPositions = {} => last_call.ret = Num(0)

\* a graded category of weight 70 averaging 100 beside a category of weight
\* 30 without grades: the current grade is 100
C5_Witness ==
    /\ last_call.op = "calculate_current_grade"
    /\ Len(current_course.categories) = 2
    /\ current_course.categories[1].weight = Num(70)
    /\ current_course.categories[1].grades = <<Num(100)>>
    /\ current_course.categories[2].weight = Num(30)
    /\ current_course.categories[2].grades = <<>>
    /\ last_call.ret = Num(100)

GpaCalled == last_call.op = "get_gpa_points"

\* the GPA points whose minimum percentage p reaches
Earned(p) ==
    {gpa \in DOMAIN current_course.grade_boundaries :
        Le(current_course.grade_boundaries[gpa], p)}

\* the largest of a non-empty set of numbers
MaxOf(S) == CHOOSE x \in S : \A y \in S : Le(y, x)

\* C6: get_gpa_points(p) is the largest GPA key whose minimum percentage is
\* <= p, and 0 when there are no boundaries or no minimum is <= p.
C6_GpaPoints ==
    GpaCalled =>
        last_call.ret =
            IF Earned(last_call.percentage) = {} THEN Num(0)
            ELSE MaxOf(Earned(last_call.percentage))

\* boundaries 4.0 -> 90 and 3.0 -> 70 (and more): 90 percent earns 4.0
C6_Witness ==
    /\ GpaCalled
    /\ {Num(4), Num(3)} \subseteq DOMAIN current_course.grade_boundaries
    /\ current_course.grade_boundaries[Num(4)] = Num(90)
    /\ current_course.grade_boundaries[Num(3)] = Num(70)
    /\ last_call.percentage = Num(90)
    /\ last_call.ret = Num(4)

\* the minimum percentages strictly descend as the GPA descends
WellFormed(grade_boundaries) ==
    \A hi, lo \in DOMAIN grade_boundaries :
        Gt(hi, lo) => Gt(grade_boundaries[hi], grade_boundaries[lo])

\* C7: for boundaries whose minimum percentages strictly descend as the GPA
\* descends, get_gpa_points is monotonic: a higher percentage never yields a
\* lower GPA point.
C7_GpaMonotonic ==
    (GpaCalled /\ WellFormed(current_course.grade_boundaries)) =>
        \A p \in Percentages :
            /\ Le(p, last_call.percentage) =>
                  Le(get_gpa_points(current_course, p), last_call.ret)
            /\ Le(last_call.percentage, p) =>
                  Le(last_call.ret, get_gpa_points(current_course, p))

\* all five GPA points bounded in descending order, and a percentage between
\* two minimums
C7_Witness ==
    /\ GpaCalled
    /\ WellFormed(current_course.grade_boundaries)
    /\ DOMAIN current_course.grade_boundaries = gpa_points
    /\ last_call.percentage = Num(85)
    /\ last_call.ret = Rat(7, 2)

\* the Test category is averaged under the given policy, with at least one
\* Test grade left after the drops and at least one Final grade recorded
TestAveragedUnder(final_policy) ==
    /\ AverageCalled
    /\ last_call.category_name = "Test"
    /\ current_course.final_policy = final_policy
    /\ {"Test", "Final"} \subseteq CategoryNames(current_course)
    /\ Len(CategoryOf(current_course, "Test").grades)
          > CategoryOf(current_course, "Test").drops
    /\ CategoryOf(current_course, "Final").grades # <<>>

\* the Test grades left after the drops
KeptTests ==
    LowestRemoved(CategoryOf(current_course, "Test").grades,
                  CategoryOf(current_course, "Test").drops)

FirstFinal == CategoryOf(current_course, "Final").grades[1]

\* the mean of the kept Test grades with the lowest one replaced by x
MeanWithLowestReplacedBy(x) ==
    Div(Add(Sub(SumSeq(KeptTests), MinOf(KeptTests)), x), Num(Len(KeptTests)))

UnderNoReplacement ==
    [current_course EXCEPT !.final_policy = "No Replacement"]

\* the course with only the first grade of Final recorded
WithFirstFinalOnly ==
    [current_course EXCEPT
        !.categories[IndexOf(current_course, "Final")].grades = <<FirstFinal>>]

\* C8: under Replace Lowest Test, with a Final grade recorded, the lowest
\* Test grade left after drops is replaced by the first Final grade if and
\* only if that grade is strictly greater; otherwise the Test average is its
\* value under No Replacement.  Only the first Final grade is used, and no
\* category other than Test is affected.
C8_ReplaceLowestTest ==
    /\ TestAveragedUnder("Replace Lowest Test") =>
          /\ Gt(FirstFinal, MinOf(KeptTests)) =>
                last_call.ret = MeanWithLowestReplacedBy(FirstFinal)
          /\ ~Gt(FirstFinal, MinOf(KeptTests)) =>
                /\ last_call.ret = Mean(KeptTests)
                /\ last_call.ret =
                      calculate_category_average(UnderNoReplacement, "Test")
          /\ last_call.ret =
                calculate_category_average(WithFirstFinalOnly, "Test")
    /\ (/\ AverageCalled
        /\ current_course.final_policy = "Replace Lowest Test"
        /\ last_call.category_name # "Test") =>
          last_call.ret = calculate_category_average(UnderNoReplacement,
                                                     last_call.category_name)

\* Test [40, 100, 70] with one drop, Final [100, 40]: the kept 70 is replaced
\* by the first Final grade 100, the second Final grade is not used
C8_Witness ==
    /\ TestAveragedUnder("Replace Lowest Test")
    /\ CategoryOf(current_course, "Test").grades = <<Num(40), Num(100), Num(70)>>
    /\ CategoryOf(current_course, "Test").drops = 1
    /\ CategoryOf(current_course, "Final").grades = <<Num(100), Num(40)>>
    /\ last_call.ret = Num(100)

\* C9: under Average with Lowest Test, with a Final grade recorded, the
\* lowest Test grade left after drops is always replaced by the mean of
\* itself and the first Final grade, even when that lowers the average,
\* before the arithmetic mean is taken.
C9_AverageWithLowestTest ==
    TestAveragedUnder("Average with Lowest Test") =>
        last_call.ret =
            MeanWithLowestReplacedBy(
                Div(Add(MinOf(KeptTests), FirstFinal), Num(2)))

\* Test [100], Final [40]: the average drops from 100 to 70
C9_Witness ==
    /\ TestAveragedUnder("Average with Lowest Test")
    /\ CategoryOf(current_course, "Test").grades = <<Num(100)>>
    /\ CategoryOf(current_course, "Test").drops = 0
    /\ FirstFinal = Num(40)
    /\ last_call.ret = Num(70)
    /\ Lt(last_call.ret,
          calculate_category_average(UnderNoReplacement, "Test"))

\* C10: every category holds at most total_assignments grades, each in
\* [0,100].
C10_GradesValid ==
    current_course # None =>
        \A i \in DOMAIN current_course.categories :
            LET category == current_course.categories[i]
            IN  /\ Len(category.grades) <= category.total_assignments
                /\ \A k \in DOMAIN category.grades :
                      /\ Le(Num(0), category.grades[k])
                      /\ Le(category.grades[k], Num(100))

SolveCalled == last_call.op = "find_minimum_balanced_grades"

\* the solver returned a recommendation
Recommended == SolveCalled /\ last_call.outcome.kind = "ok"

\* |x|
AbsOf(x) == IF Lt(x, Num(0)) THEN Sub(Num(0), x) ELSE x

\* the sum of the weights of the slots
RECURSIVE SlotWeightSum(_)
SlotWeightSum(slots) ==
    IF slots = <<>> THEN Num(0)
    ELSE Add(Head(slots)[2], SlotWeightSum(Tail(slots)))

\* half a hundredth: what rounding to 2 decimals changes a score by at most
HalfCent == Rat(1, 200)

\* the course with every recommended score recorded in its category
RECURSIVE Recorded(_, _)
Recorded(course, results) ==
    IF results = <<>> THEN course
    ELSE Recorded(
            [course EXCEPT
                !.categories[IndexOf(course, Head(results)[1])].grades =
                    @ \o Head(results)[2]],
            Tail(results))

WeightsSumTo100 ==
    SumSeq([i \in DOMAIN current_course.categories |->
               current_course.categories[i].weight]) = Num(100)

\* C1: when the category weights sum to 100 and the solver returns a
\* recommendation, recording every recommended score in its category makes
\* calculate_current_grade the target, to within the rounding of the scores.
C1_TargetReached ==
    (Recommended /\ WeightsSumTo100) =>
        Le(AbsOf(Sub(calculate_current_grade(
                        Recorded(current_course, last_call.outcome.results)),
                     last_call.target_grade)),
           HalfCent)

\* the recommendation came from the optimizer
Optimized == Recommended /\ last_call.outcome.path = "optimizer"

\* C2: every recommendation of the optimizer path gives each unknown slot a
\* value in [0,100], and the sum over the slots of value times slot weight
\* is target minus currentContribution, to within the 2-decimal rounding.
C2_OptimizerResult ==
    Optimized =>
        LET slots == last_call.outcome.all_remaining_grades
            grades == last_call.outcome.grades
            needed == Sub(last_call.target_grade,
                          CurrentContribution(current_course))
        IN  /\ Len(grades) = Len(slots)
            /\ \A i \in DOMAIN grades :
                  Le(Num(0), grades[i]) /\ Le(grades[i], Num(100))
            /\ Le(AbsOf(Sub(WeightedSum(grades, slots), needed)),
                  Mul(HalfCent, SlotWeightSum(slots)))

\* a recommendation for two unknown slots, one of them rounded, after work
\* that already contributes to the grade
C2_Witness ==
    /\ Optimized
    /\ Len(last_call.outcome.grades) = 2
    /\ Gt(CurrentContribution(current_course), Num(0))
    /\ \E i \in DOMAIN last_call.outcome.grades :
          last_call.outcome.grades[i][2] = 3 \/ last_call.outcome.grades[i][2] = 100

AddGradeCalled == last_call.op = "add_grade"

\* the score add_grade was given: the text was the literal of a float
ScoreGiven ==
    /\ AddGradeCalled
    /\ last_call.category \in CategoryNames(last_call.self)
    /\ last_call.grade_text # ""
    /\ float(last_call.grade_text).ok

Score == float(last_call.grade_text).value

OutsideRange(score) == ~(Le(Num(0), score) /\ Le(score, Num(100)))

\* the category add_grade was called for, before the call
Selected == CategoryOf(last_call.self, last_call.category)

AtCapacity == Len(Selected.grades) >= Selected.total_assignments

\* C11: add_grade rejects a score outside [0,100] (OutOfRange) and rejects
\* any score when the category already holds total_assignments grades
\* (CapacityExceeded); a rejected add leaves the grades unchanged, and an
\* accepted add appends the score as the last element of the category's
\* grades and changes nothing else.
C11_AddGrade ==
    ScoreGiven =>
        /\ OutsideRange(Score) =>
              /\ last_call.warning = "Grade must be between 0 and 100"
              /\ current_course = last_call.self
        /\ (~OutsideRange(Score) /\ AtCapacity) =>
              /\ last_call.warning
                    = "Cannot add more grades than total assignments"
              /\ current_course = last_call.self
        /\ (~OutsideRange(Score) /\ ~AtCapacity) =>
              /\ last_call.warning = ""
              /\ current_course =
                    [last_call.self EXCEPT
                        !.categories[IndexOf(last_call.self,
                                             last_call.category)].grades =
                            Append(@, Score)]
        /\ <<grade_category_combo, final_policy_combo>>
              = <<CategoryNames(last_call.self), "No Replacement">>

DeleteGradeCalled == last_call.op = "delete_grade"

\* the grades, before the call, of the category delete_grade was called for
GradesBefore ==
    CategoryOf(last_call.self, last_call.category_name).grades

\* the category exists and holds the grade
GradePresent ==
    /\ DeleteGradeCalled
    /\ last_call.category_name \in CategoryNames(last_call.self)
    /\ \E i \in DOMAIN GradesBefore : GradesBefore[i] = last_call.grade

\* the course before the call with position k of the category's grades
\* taken out, the other grades keeping their order
WithoutPosition(k) ==
    [last_call.self EXCEPT
        !.categories[IndexOf(last_call.self, last_call.category_name)].grades =
            [i \in 1 .. Len(GradesBefore) - 1 |->
                IF i < k THEN GradesBefore[i] ELSE GradesBefore[i + 1]]]

\* C12: delete_grade(category, g) on a category that contains g removes
\* exactly one occurrence of g, the first in insertion order, and leaves all
\* other grades and their order unchanged; if g is absent, or the category
\* does not exist, nothing changes.  (Of several NaN, which equal nothing,
\* the one removed is the object of the row, whichever position it has.)
C12_DeleteGrade ==
    DeleteGradeCalled =>
        IF GradePresent
        THEN /\ \E k \in DOMAIN GradesBefore :
                   /\ GradesBefore[k] = last_call.grade
                   /\ IsNaN(last_call.grade)
                         \/ \A j \in 1 .. k - 1 :
                               GradesBefore[j] # last_call.grade
                   /\ current_course = WithoutPosition(k)
             /\ last_call.warning = ""
        ELSE /\ current_course = last_call.self
             /\ last_call.category_name \in CategoryNames(last_call.self) =>
                   last_call.warning = "Error removing grade"

\* 0 is deleted from [0, 100, 0]: the first 0 goes, [100, 0] is left
C12_Witness ==
    /\ GradePresent
    /\ last_call.category_name = "Test"
    /\ last_call.grade = Num(0)
    /\ GradesBefore = <<Num(0), Num(100), Num(0)>>
    /\ CategoryOf(current_course, "Test").grades = <<Num(100), Num(0)>>

RequiredCalled == last_call.op = "calculate_required_grades"

\* calculate_required_grades was called with boundaries saved
BoundariesAttempted ==
    /\ RequiredCalled
    /\ DOMAIN current_course.grade_boundaries # {}

Attempts == last_call.ret.attempts

\* every boundary is reported as 'No remaining assignments', the solver
\* having returned the empty result without raising
NothingRemainingReported ==
    /\ last_call.ret.shown = "text"
    /\ Len(Attempts) = Cardinality(DOMAIN current_course.grade_boundaries)
    /\ \A i \in DOMAIN Attempts :
          /\ Attempts[i].outcome.kind = "empty"
          /\ Attempts[i].outcome.results = <<>>
          /\ Attempts[i].report = "No remaining assignments"

\* the number of grades of a category kept after the drops: the lowest drops
\* are taken off only when more than drops grades are recorded
KeptCount(category) ==
    IF category.drops > 0 /\ Len(category.grades) > category.drops
    THEN Len(category.grades) - category.drops
    ELSE Len(category.grades)

\* C13 as stated: when, for every category, effectiveTotal minus the number
\* of recorded grades is <= 0, find_minimum_balanced_grades returns the empty
\* result without raising and calculate_required_grades reports 'No
\* remaining assignments' for the boundary.
C13_Original ==
    (/\ BoundariesAttempted
     /\ \A i \in DOMAIN current_course.categories :
           LET category == current_course.categories[i]
           IN  (category.total_assignments - category.drops)
                  - Len(category.grades) <= 0) =>
        NothingRemainingReported

\* C13 amended: the same when, for every category, effectiveTotal minus the
\* number of grades kept after the drops is <= 0, the kept grades being the
\* recorded ones without the lowest drops when more than drops are recorded,
\* and all the recorded ones otherwise.
C13_NothingRemaining ==
    (/\ BoundariesAttempted
     /\ \A i \in DOMAIN current_course.categories :
           LET category == current_course.categories[i]
           IN  (category.total_assignments - category.drops)
                  - KeptCount(category) <= 0) =>
        NothingRemainingReported

\* two boundaries, a category with one drop holding all its three grades
\* and a second category holding its only grade: both boundaries are
\* reported as 'No remaining assignments'
C13_Witness ==
    /\ BoundariesAttempted
    /\ Len(current_course.categories) = 2
    /\ current_course.categories[1].drops = 1
    /\ Len(current_course.categories[1].grades) = 3
    /\ Len(current_course.categories[2].grades) = 1
    /\ Len(Attempts) = 2
    /\ NothingRemainingReported

\* the only unknown slot of the attempt is the Final slot
OnlyFinalRemains(attempt) ==
    /\ Len(attempt.outcome.all_remaining_grades) = 1
    /\ attempt.outcome.all_remaining_grades[1][1] = "Final"

\* (target - currentContribution) / finalWeight, finalWeight being the
\* weight of the Final slot; no number when that weight is 0
NeededOnFinal(attempt) ==
    Div(Sub(attempt.boundary, CurrentContribution(current_course)),
        attempt.outcome.all_remaining_grades[1][2])

\* the solver failed with the Unreachable error of the shortcut
UnreachableOnFinal(outcome) ==
    /\ outcome.kind = "ValueError"
    /\ outcome.message
          = "Cannot achieve the target grade with the remaining Final"
    /\ outcome.results = <<>>

\* C14: when the only unknown slot is the Final slot,
\* find_minimum_balanced_grades returns exactly {Final: [needed]} with
\* needed = (target - currentContribution) / finalWeight if 0 <= needed <=
\* 100, and otherwise fails with the Unreachable error and returns no
\* recommendation.
C14_FinalShortcut ==
    RequiredCalled =>
        \A i \in DOMAIN Attempts :
            OnlyFinalRemains(Attempts[i]) =>
                LET needed == NeededOnFinal(Attempts[i])
                IN  IF Le(Num(0), needed) /\ Le(needed, Num(100))
                    THEN /\ Attempts[i].outcome.kind = "ok"
                         /\ Attempts[i].outcome.results
                               = << <<"Final", <<needed>> >> >>
                    ELSE UnreachableOnFinal(Attempts[i].outcome)

\* even a score of 100 on every unknown slot leaves the weighted sum below
\* target - currentContribution
NeedsAbove100(attempt) ==
    /\ attempt.outcome.all_remaining_grades # <<>>
    /\ Lt(Mul(Num(100), SlotWeightSum(attempt.outcome.all_remaining_grades)),
          Sub(attempt.boundary, CurrentContribution(current_course)))

\* the messages of the Unreachable failure (lines 1094 and 1178); 'Could not
\* find a valid solution' (line 1174) is the Infeasible one
UnreachableMessages ==
    {"Cannot achieve the target grade with the remaining Final",
     "Required grades would be outside possible range"}

\* C15: when meeting the target would require a score above 100 on the
\* remaining slots, the solver returns no recommendation and reports the
\* failure as Unreachable, not as the Infeasible 'solver did not converge'
\* failure.
C15_Unreachable ==
    RequiredCalled =>
        \A i \in DOMAIN Attempts :
            NeedsAbove100(Attempts[i]) =>
                /\ Attempts[i].outcome.kind = "ValueError"
                /\ Attempts[i].outcome.message \in UnreachableMessages
                /\ Attempts[i].outcome.results = <<>>
                /\ Attempts[i].report = "Cannot achieve this grade"

\* C16: in calculate_required_grades every grade boundary of the current
\* course is attempted exactly once, in descending GPA order, and each gets
\* an outcome (requirements, 'No remaining assignments', or a failure
\* reason); a failure of the solver on one boundary never prevents the later
\* boundaries from being attempted.
C16_EveryBoundaryAttempted ==
    BoundariesAttempted =>
        /\ last_call.ret.shown = "text"
        /\ Len(Attempts) = Cardinality(DOMAIN current_course.grade_boundaries)
        /\ \A i \in DOMAIN Attempts :
              /\ Attempts[i].gpa \in DOMAIN current_course.grade_boundaries
              /\ Attempts[i].boundary
                    = current_course.grade_boundaries[Attempts[i].gpa]
              /\ Attempts[i].report \in
                    {"Need", "No remaining assignments",
                     "Cannot achieve this grade"}
        /\ \A i, j \in DOMAIN Attempts :
              i < j => Gt(Attempts[i].gpa, Attempts[j].gpa)

\* the solver was called for calculate_required_grades under No Replacement
UnderNoReplacementPolicy ==
    /\ BoundariesAttempted
    /\ current_course.final_policy = "No Replacement"
    /\ final_policy_combo = "No Replacement"

\* the unknown slots the attempt has for the category
SlotsFor(attempt, name) ==
    SelectSeq(attempt.outcome.all_remaining_grades, LAMBDA slot : slot[1] = name)

\* max(0, n)
AtLeastZero(n) == IF n > 0 THEN n ELSE 0

\* C20 as stated: under No Replacement each category contributes max(0,
\* effectiveTotal - recordedCount) unknown slots, effectiveTotal being
\* total_assignments - drops and recordedCount the number of grades recorded
\* in the category, each of weight weight / effectiveTotal.
C20_Original ==
    UnderNoReplacementPolicy =>
        \A i \in DOMAIN Attempts, k \in DOMAIN current_course.categories :
            LET category == current_course.categories[k]
                effectiveTotal == category.total_assignments - category.drops
                slots == SlotsFor(Attempts[i], category.name)
            IN  /\ Len(slots)
                      = AtLeastZero(effectiveTotal - Len(category.grades))
                /\ \A n \in DOMAIN slots :
                      slots[n][2] = Div(Div(category.weight, Num(100)),
                                        Num(effectiveTotal))

\* C20 amended: the same with recordedCount the number of grades kept after
\* the drops: the recorded grades without the lowest drops when more than
\* drops grades are recorded, and all the recorded grades otherwise.
C20_RemainingSlots ==
    UnderNoReplacementPolicy =>
        \A i \in DOMAIN Attempts, k \in DOMAIN current_course.categories :
            LET category == current_course.categories[k]
                effectiveTotal == category.total_assignments - category.drops
                slots == SlotsFor(Attempts[i], category.name)
            IN  /\ Len(slots)
                      = AtLeastZero(effectiveTotal - KeptCount(category))
                /\ \A n \in DOMAIN slots :
                      slots[n][2] = Div(Div(category.weight, Num(100)),
                                        Num(effectiveTotal))

\* a category of weight 100 with three assignments, one drop and two grades
\* recorded: one grade is kept, so one slot of weight 1/2 remains
C20_Witness ==
    /\ UnderNoReplacementPolicy
    /\ Len(current_course.categories) = 1
    /\ current_course.categories[1].weight = Num(100)
    /\ current_course.categories[1].total_assignments = 3
    /\ current_course.categories[1].drops = 1
    /\ Len(current_course.categories[1].grades) = 2
    /\ Attempts[1].outcome.all_remaining_grades
          = << <<current_course.categories[1].name, Rat(1, 2)>> >>

\* find_minimum_balanced_grades was called a second time
SolvedTwice ==
    /\ last_call.op = "find_minimum_balanced_grades"
    /\ last_call.calls = 2

RoundTripped == last_call.op = "from_dict"

\* C18: for every Course c, Course.from_dict(c.to_dict()) has the same name,
\* credit hours, semester, final policy and grade boundaries as c, and the
\* same set of categories, each with identical name, weight,
\* total_assignments, drops and the same grades in the same order.
C18_RoundTrip ==
    RoundTripped =>
        LET c == current_course
            r == last_call.ret
        IN  /\ r.name = c.name
            /\ r.credit_hours = c.credit_hours
            /\ r.semester = c.semester
            /\ r.final_policy = c.final_policy
            /\ DOMAIN r.grade_boundaries = DOMAIN c.grade_boundaries
            /\ \A gpa \in DOMAIN c.grade_boundaries :
                  r.grade_boundaries[gpa] = c.grade_boundaries[gpa]
            /\ Len(r.categories) = Len(c.categories)
            /\ CategoryNames(r) = CategoryNames(c)
            /\ \A name \in CategoryNames(c) :
                  /\ CategoryOf(r, name).weight = CategoryOf(c, name).weight
                  /\ CategoryOf(r, name).total_assignments
                        = CategoryOf(c, name).total_assignments
                  /\ CategoryOf(r, name).drops = CategoryOf(c, name).drops
                  /\ CategoryOf(r, name).grades = CategoryOf(c, name).grades

\* a course with a semester, two boundaries, a policy text of the selector
\* and two categories, one holding grades out of ascending order
C18_Witness ==
    /\ RoundTripped
    /\ current_course.semester = "Fall 2024"
    /\ current_course.credit_hours = Rat(1, 2)
    /\ current_course.final_policy \notin KnownPolicies
    /\ Cardinality(DOMAIN current_course.grade_boundaries) = 2
    /\ Len(current_course.categories) = 2
    /\ current_course.categories[1].grades = <<Num(100), Num(0)>>
    /\ last_call.ret = current_course

\* C19: in every reachable state the final_policy of the course is one of
\* the three values calculate_category_average and the solver recognise: No
\* Replacement, Replace Lowest Test, Average with Lowest Test.
C19_PolicyRecognised ==
    current_course # None => current_course.final_policy \in KnownPolicies

\* the sum, over the categories with recorded grades, of term(category)
ContributionSum(term(_)) ==
    SumSeq([i \in DOMAIN current_course.categories |->
               IF current_course.categories[i].grades # <<>>
               THEN term(current_course.categories[i])
               ELSE Num(0)])

\* currentContribution and totalWeightUsed, as find_minimum_balanced_grades
\* computes them for the current course
SolverContribution ==
    <<CurrentContribution(current_course),
      ContributionLoop(current_course, 1, Num(0), Num(0))[2]>>

\* weight * (count / effectiveTotal), the weight as a fraction of 1
CompletedWeight(category, count) ==
    Mul(Div(category.weight, Num(100)),
        Div(Num(count),
            Num(category.total_assignments - category.drops)))

\* C21 as stated: the solver's currentContribution equals the sum, over the
\* categories with recorded grades, of mean(recorded grades with the lowest
\* drops removed, by the drop rule of calculate_category_average) * weight *
\* (recordedCount / effectiveTotal), recordedCount being the number of
\* recorded grades, and totalWeightUsed equals the sum of those completed
\* weights.
C21_Original ==
    BoundariesAttempted =>
        LET effective(category) ==
                ApplyDrops(sorted(category.grades), category.drops)
            completed(category) ==
                CompletedWeight(category, Len(category.grades))
            contribution(category) ==
                Mul(Mean(effective(category)), completed(category))
        IN  SolverContribution
                = <<ContributionSum(contribution), ContributionSum(completed)>>

\* C21 amended: the same with the grades kept by the solver's own drop rule
\* (the recorded grades without the lowest drops when more than drops grades
\* are recorded, all the recorded grades otherwise) and with recordedCount
\* the number of kept grades.
C21_CurrentContribution ==
    BoundariesAttempted =>
        LET kept(category) ==
                LowestRemoved(category.grades,
                              Len(category.grades) - KeptCount(category))
            completed(category) ==
                CompletedWeight(category, KeptCount(category))
            contribution(category) ==
                Mul(Mean(kept(category)), completed(category))
        IN  SolverContribution
                = <<ContributionSum(contribution), ContributionSum(completed)>>

\* a category of weight 100 with three assignments, one drop and the grades
\* 100 and 40 recorded: 100 is kept and counts for half the weight, beside a
\* category of weight 60 whose only grade 40 is recorded
C21_Witness ==
    /\ BoundariesAttempted
    /\ Len(Attempts) > 0
    /\ Len(current_course.categories) = 2
    /\ current_course.categories[1].weight = Num(100)
    /\ current_course.categories[1].total_assignments = 3
    /\ current_course.categories[1].drops = 1
    /\ current_course.categories[1].grades = <<Num(100), Num(40)>>
    /\ current_course.categories[2].weight = Num(60)
    /\ current_course.categories[2].grades = <<Num(40)>>
    /\ SolverContribution = <<Num(74), Rat(11, 10)>>

\* calculate_required_grades called the solver with apply_final_policy: the
\* selector is not on No Replacement and Test has a recorded grade
PolicyApplied ==
    /\ BoundariesAttempted
    /\ final_policy_combo # "No Replacement"
    /\ "Test" \in CategoryNames(current_course)
    /\ CategoryOf(current_course, "Test").grades # <<>>

\* the assignments of the category not yet covered by a kept grade
RemainingOf(category) ==
    AtLeastZero((category.total_assignments - category.drops)
                    - KeptCount(category))

\* weight / effectiveTotal, the weight as a fraction of 1
PerSlotWeight(category) ==
    Div(Div(category.weight, Num(100)),
        Num(category.total_assignments - category.drops))

\* C22: when a policy other than No Replacement is applied by the solver,
\* the Test category with remaining > 0 contributes exactly remaining - 1
\* unknown slots, each at its normal per-slot weight weight /
\* effectiveTotal.
C22_TestSlotsDeferred ==
    PolicyApplied =>
        LET Test == CategoryOf(current_course, "Test")
        IN  RemainingOf(Test) > 0 =>
               \A i \in DOMAIN Attempts :
                   SlotsFor(Attempts[i], "Test")
                      = [k \in 1 .. RemainingOf(Test) - 1 |->
                            <<"Test", PerSlotWeight(Test)>>]

\* Test of weight 40 with three assignments, no drop and one grade recorded:
\* two remain, one slot of weight 0.4 / 3 is generated
C22_Witness ==
    /\ PolicyApplied
    /\ Len(Attempts) > 0
    /\ CategoryOf(current_course, "Test").weight = Num(40)
    /\ CategoryOf(current_course, "Test").total_assignments = 3
    /\ CategoryOf(current_course, "Test").drops = 0
    /\ Len(CategoryOf(current_course, "Test").grades) = 1
    /\ SlotsFor(Attempts[1], "Test") = << <<"Test", Rat(2, 15)>> >>

\* the unknown slots the last find_minimum_balanced_grades had for a category
SolvedSlotsFor(name) ==
    SelectSeq(last_call.outcome.all_remaining_grades,
              LAMBDA slot : slot[1] = name)

\* the solver ran on a course with Test and Final, Final having an
\* assignment left
FinalSlotLeft ==
    /\ SolveCalled
    /\ {"Test", "Final"} \subseteq CategoryNames(current_course)
    /\ RemainingOf(CategoryOf(current_course, "Final")) > 0

\* the policy of the course is Replace Lowest Test: the value itself, or the
\* text of the selector's item for it
ReplaceLowestTestChosen ==
    current_course.final_policy \in
        {"Replace Lowest Test",
         "Replace Lowest Test (Experimental, use at own risk)"}

\* the policy of the course is Average with Lowest Test, likewise
AverageWithLowestTestChosen ==
    current_course.final_policy \in
        {"Average with Lowest Test",
         "Average with Lowest Test (Experimental, use at own risk)"}

\* C23: when the course's policy is Replace Lowest Test and Test and Final
\* both exist with Final having a remaining slot, the solver gives Final
\* exactly one unknown slot whose weight is finalPerSlotWeight +
\* testPerSlotWeight, each per-slot weight being weight / effectiveTotal.
C23_ReplaceLowestFinalSlot ==
    (FinalSlotLeft /\ ReplaceLowestTestChosen) =>
        SolvedSlotsFor("Final")
           = << <<"Final",
                  Add(PerSlotWeight(CategoryOf(current_course, "Final")),
                      PerSlotWeight(CategoryOf(current_course, "Test")))>> >>

\* C24: when the course's policy is Average with Lowest Test and Test and
\* Final both exist with Final having a remaining slot, the solver gives
\* Final one unknown slot at its own per-slot weight plus one additional
\* Test slot carrying half of Test's per-slot weight (Test weight / Test
\* effectiveTotal / 2).
C24_AverageWithLowestFinalSlot ==
    (FinalSlotLeft /\ AverageWithLowestTestChosen) =>
        LET Test == CategoryOf(current_course, "Test")
            half == Div(PerSlotWeight(Test), Num(2))
            slots == SolvedSlotsFor("Test")
        IN  /\ SolvedSlotsFor("Final")
                  = << <<"Final",
                         PerSlotWeight(CategoryOf(current_course, "Final"))>> >>
            /\ Cardinality({k \in DOMAIN slots : slots[k][2] = half}) = 1
            /\ Len(slots) = AtLeastZero(RemainingOf(Test) - 1) + 1

\* the last find_minimum_balanced_grades returned a mapping from the general
\* path, the one through the optimizer
GeneralPathReturned ==
    /\ SolveCalled
    /\ last_call.outcome.kind = "ok"
    /\ last_call.outcome.path = "optimizer"

\* the scores the optimizer gave to the slots of a category, in the order
\* the slots were generated
ScoresOfSlots(name) ==
    LET slots == last_call.outcome.all_remaining_grades
        positions == SelectSeq([k \in DOMAIN slots |-> k],
                               LAMBDA k : slots[k][1] = name)
    IN  [j \in DOMAIN positions |-> last_call.outcome.grades[positions[j]]]

\* C25: the mapping returned by the general path contains, for every
\* category that generated unknown slots, exactly as many required scores as
\* slots were generated for it, in generation order, and the total number of
\* returned scores equals the number of slots: no slot's value is lost or
\* overwritten, whatever the order of the categories.
C25_EverySlotReturned ==
    GeneralPathReturned =>
        LET slots == last_call.outcome.all_remaining_grades
            results == last_call.outcome.results
            names == {slots[k][1] : k \in DOMAIN slots}
        IN  /\ {results[r][1] : r \in DOMAIN results} = names
            /\ Len(results) = Cardinality(names)
            /\ \A r \in DOMAIN results :
                  results[r][2] = ScoresOfSlots(results[r][1])
            /\ SumSeq([r \in DOMAIN results |-> Num(Len(results[r][2]))])
                  = Num(Len(slots))

\* two slots of one category followed by one slot of another: the mapping
\* holds two scores for the first and one, a different one, for the second
C25_Witness ==
    /\ GeneralPathReturned
    /\ Len(last_call.outcome.all_remaining_grades) = 3
    /\ Len(last_call.outcome.results) = 2
    /\ Len(last_call.outcome.results[1][2]) = 2
    /\ Len(last_call.outcome.results[2][2]) = 1
    /\ last_call.outcome.results[2][2][1] # last_call.outcome.results[1][2][1]
    /\ last_call.outcome.results[1][2]
          = SubSeq(last_call.outcome.grades, 1, 2)
    /\ last_call.outcome.results[2][2]
          = SubSeq(last_call.outcome.grades, 3, 3)

SaveBoundariesCalled == last_call.op = "save_boundaries"

\* the boundaries are empty, or every value is within [0, 100] and the
\* values strictly descend as the GPA descends
BoundariesValid(boundaries) ==
    \/ DOMAIN boundaries = {}
    \/ /\ \A gpa \in DOMAIN boundaries :
             Le(Num(0), boundaries[gpa]) /\ Le(boundaries[gpa], Num(100))
       /\ \A high, low \in DOMAIN boundaries :
             Gt(high, low) => Gt(boundaries[high], boundaries[low])

\* C26: after any sequence of save_boundaries calls the stored
\* grade_boundaries are either empty or every value lies in [0, 100] and the
\* values are strictly descending as GPA descends; a rejected save leaves
\* the previously stored boundaries unchanged.
C26_BoundariesValid ==
    (SaveBoundariesCalled /\ current_course # None) =>
        /\ BoundariesValid(current_course.grade_boundaries)
        /\ last_call.warning # "" =>
              current_course.grade_boundaries = last_call.self.grade_boundaries

CategoryCalled == last_call.op \in {"add_category", "delete_category"}

\* C27: after any sequence of add_category and delete_category calls every
\* category of the course has a unique name, 0 <= drops <
\* total_assignments and 0 <= weight <= 100; a rejected add_category leaves
\* the categories unchanged.
C27_CategoriesValid ==
    CategoryCalled =>
        LET categories == current_course.categories
        IN  /\ \A i, j \in DOMAIN categories :
                  i # j => categories[i].name # categories[j].name
            /\ \A i \in DOMAIN categories :
                  /\ 0 <= categories[i].drops
                  /\ categories[i].drops < categories[i].total_assignments
                  /\ Le(Num(0), categories[i].weight)
                  /\ Le(categories[i].weight, Num(100))
            /\ (last_call.op = "add_category" /\ ~last_call.accepted) =>
                  categories = last_call.self.categories

\* some category of the course has an assignment not covered by a kept grade
SomeSlotUnrecorded ==
    \E i \in DOMAIN current_course.categories :
        RemainingOf(current_course.categories[i]) > 0

\* C28: find_minimum_balanced_grades returns the empty 'nothing remaining'
\* result only when no category has an unrecorded slot: whenever some
\* category has remaining > 0 the outcome is a recommendation or a failure,
\* never the empty result, under every final policy.
C28_EmptyOnlyWhenNothingRemains ==
    (BoundariesAttempted /\ SomeSlotUnrecorded) =>
        \A i \in DOMAIN Attempts :
            /\ Attempts[i].outcome.kind # "empty"
            /\ Attempts[i].report # "No remaining assignments"

\* C29: whenever calculate_required_grades runs, the policy the solver
\* branches on (the selector text read at call time) equals the
\* final_policy stored on the current course, after any sequence of loading
\* courses, switching the current course and selecting policies: the solver
\* never uses a policy left over from another course or from the selector's
\* previous state.
C29_SolverUsesCoursePolicy ==
    (RequiredCalled /\ Len(Attempts) > 0) =>
        last_call.policy = last_call.self.final_policy

\* one of the four read-only operations was called
ReadOnlyCalled ==
    last_call.op \in {"calculate_category_average", "calculate_current_grade",
                      "get_gpa_points", "find_minimum_balanced_grades"}

=============================================================================
